---- MODULE Spec2Model ----
(***************************************************************************)
(* The panel manager of rfm (src/panel/manager.rs): the event loop over    *)
(* keystrokes, directory completions and preview completions, the three    *)
(* managed slots with their (path, generation) states, the redraw flags,   *)
(* the modes, and the bulk-rename routine.                                  *)
(*                                                                         *)
(* ManagedPanel, DirPanel, PreviewPanel, MillerColumns, the workers and    *)
(* the opener are declared outside manager.rs; they are modelled from      *)
(* sections 3, 4.1, 4.2 and 6 of the specification.                        *)
(***************************************************************************)
EXTENDS Integers, Sequences, FiniteSets, TLC

VARIABLES
    left,               \* ManagedPanel<DirPanel>
    center,             \* ManagedPanel<DirPanel>
    right,              \* ManagedPanel<PreviewPanel>
    cache,              \* PanelCache<DirPanel>, shared with the workers
    dir_tx,             \* directory load requests not yet served, each with the
                        \* position of run() at which it was issued
    prev_tx,            \* preview load requests not yet served
    delayed,            \* the debounced preview request that has not fired yet
    dir_rx,             \* directory completions not yet received, each with the
                        \* position its request was issued at
    prev_rx,            \* preview completions not yet received
    mode,               \* Mode
    clipboard,          \* Option<Clipboard>
    show_hidden,
    show_log,
    redraw,             \* Redraw
    layout,             \* MillerColumns
    previous,
    pre_console_path,
    parser,             \* CommandParser: the keys of a binding in progress
    fs,                 \* the file system below the root
    temp,               \* the bulk-rename file: whether it exists, what was written
    logs,               \* the error!/info! lines written so far (by kind)
    log_signal,         \* a line was written that logger.update() has not reported
    opened,             \* what the blocking opener.open call was given
    pc,                 \* where run() stands
    result,             \* what run() returned
    tasks,              \* the closures given to spawn_blocking that have not run yet
    closed,             \* the channels and streams whose other end is gone
    returned            \* the terminal as run() left it and the path it returned

vars == << left, center, right, cache, dir_tx, prev_tx, delayed, dir_rx, prev_rx,
           mode, clipboard, show_hidden, show_log, redraw, layout, previous,
           pre_console_path, parser, fs, temp, logs, log_signal, opened, pc,
           result, tasks, closed, returned >>

----------------------------------------------------------------------------
(* Bounds of the model *)

\* generations are capped: no request is issued beyond this generation
MaxGen == 5
\* capacity of each request queue and each completion channel
MaxChan == 1
\* number of tokens (names and newlines) of the edited bulk-rename file
MaxText == 3
\* number of keys the parser holds of a binding in progress
MaxKeys == 2
\* largest terminal width and height of a Resize event
MaxSize == 2

----------------------------------------------------------------------------
(* Paths and the file system *)

\* Option<&Path>::None
None == << "" >>
Root == << >>

\* order in which a directory worker lists names
NameOrder == << "a", "b", "d", "s", "x" >>

parent(p) == IF p = None \/ p = Root THEN None ELSE SubSeq(p, 1, Len(p) - 1)

with_file_name(p, n) == IF n = "" THEN parent(p) ELSE Append(parent(p), n)

IsPrefix(p, q) == Len(p) <= Len(q) /\ SubSeq(q, 1, Len(p)) = p

Rebase(q, old, new) == new \o SubSeq(q, Len(old) + 1, Len(q))

InitFs == [ dirs  |-> { Root, << "d" >>, << "d", "s" >> },
            files |-> { << "d", "a" >>, << "d", "b" >>, << "d", "s", "a" >> } ]

StartDir == << "d" >>

exists(f, p) == p \in f.dirs \/ p \in f.files

is_dir(f, p) == p \in f.dirs

Children(f, p) == { q \in f.dirs \cup f.files : q # Root /\ q # None /\ parent(q) = p }

\* std::fs::rename can succeed: the source exists and the target is not a
\* directory that a file would replace, nor a file that a directory would, nor
\* a directory with entries
RenamePossible(f, old, new) ==
    /\ exists(f, old)
    /\ new # None
    /\ old # Root
    /\ new # Root
    /\ ~IsPrefix(old, new) \/ old = new
    /\ exists(f, parent(new)) /\ is_dir(f, parent(new))
    /\ is_dir(f, new) => is_dir(f, old) /\ Children(f, new) = {}
    /\ new \in f.files => old \in f.files

\* the file system after a successful std::fs::rename(old, new)
Renamed(f, old, new) ==
    IF old = new THEN f
    ELSE IF old \in f.files
    THEN [ f EXCEPT !.files = (@ \ { old }) \cup { new } ]
    ELSE [ dirs  |-> { q \in f.dirs : ~IsPrefix(old, q) }
                       \cup { Rebase(q, old, new) : q \in { r \in f.dirs : IsPrefix(old, r) } },
           files |-> { q \in f.files : ~IsPrefix(old, q) }
                       \cup { Rebase(q, old, new) : q \in { r \in f.files : IsPrefix(old, r) } } ]

----------------------------------------------------------------------------
(* DirPanel and PreviewPanel *)

\* hidden is the filter flag set_hidden writes; a panel is built with hidden
\* entries filtered out.  No name of NameOrder is a hidden one, so the filter
\* changes no listing here.
EmptyPanel(p) ==
    [ path |-> p, elems |-> << >>, sel |-> 0, marked |-> {}, hidden |-> FALSE,
      search |-> << >> ]

Listing(f, p) ==
    SelectSeq([ i \in 1..Len(NameOrder) |-> Append(p, NameOrder[i]) ],
              LAMBDA q : exists(f, q))

\* what a directory worker builds for path p
LoadDir(f, p) ==
    IF p # None /\ is_dir(f, p)
    THEN [ path |-> p, elems |-> Listing(f, p),
           sel |-> IF Listing(f, p) = << >> THEN 0 ELSE 1, marked |-> {},
           hidden |-> FALSE, search |-> << >> ]
    ELSE EmptyPanel(p)

\* what a preview worker builds for path p
LoadPreview(f, p) ==
    IF p # None /\ is_dir(f, p) THEN [ kind |-> "Dir", panel |-> LoadDir(f, p) ]
    ELSE IF p # None /\ exists(f, p) THEN [ kind |-> "File", panel |-> EmptyPanel(p) ]
    ELSE [ kind |-> "Empty", panel |-> EmptyPanel(None) ]

selected_path(p) == IF p.sel = 0 THEN None ELSE p.elems[p.sel]

maybe_path(pv) == pv.panel.path

\* up(step) and down(step) saturate at the first and the last element; the
\* source tests whether the selection moved
up(p, step) ==
    IF p.sel <= 1 THEN p
    ELSE [ p EXCEPT !.sel = IF step >= @ - 1 THEN 1 ELSE @ - step ]

down(p, step) ==
    IF p.sel = 0 \/ p.sel >= Len(p.elems) THEN p
    ELSE [ p EXCEPT !.sel = IF step >= Len(p.elems) - @ THEN Len(p.elems) ELSE @ + step ]

select_path(p, q) ==
    IF \E i \in 1..Len(p.elems) : p.elems[i] = q
    THEN [ p EXCEPT !.sel = CHOOSE i \in 1..Len(p.elems) : p.elems[i] = q ]
    ELSE p

mark_selected_item(p) ==
    IF p.sel = 0 THEN p ELSE [ p EXCEPT !.marked = @ \cup { p.elems[p.sel] } ]

unmark(p) == [ p EXCEPT !.marked = {} ]

set_hidden(p, show) == [ p EXCEPT !.hidden = show ]

\* the elements whose name holds the search string: a name is one token, so
\* it holds a string of one token that is the name; the empty string, which
\* every name holds, is no search
Matches(p, input) ==
    { p.elems[i] : i \in { j \in DOMAIN p.elems :
                              Len(input) = 1 /\ p.elems[j][Len(p.elems[j])] = input[1] } }

\* update_search(input) marks the matches live, finish_search(input) leaves
\* them marked
update_search(p, input) ==
    [ p EXCEPT !.search = input, !.marked = Matches(p, input) ]

finish_search(p, input) ==
    [ p EXCEPT !.search = input, !.marked = Matches(p, input) ]

\* clear_search(): the panel keeps no search string
clear_search(p) == [ p EXCEPT !.search = << >> ]

\* the selection goes to the next marked element after it, around the end
select_next_marked(p) ==
    LET n     == Len(p.elems)
        after == { k \in 1..n : p.elems[((p.sel - 1 + k) % n) + 1] \in p.marked }
    IN  IF p.sel = 0 \/ after = { } THEN p
        ELSE [ p EXCEPT !.sel = ((p.sel - 1 + (CHOOSE k \in after : \A j \in after : k <= j)) % n) + 1 ]

\* the marked elements of a panel, in listing order
MarkedElems(p) == SelectSeq(p.elems, LAMBDA q : q \in p.marked)

----------------------------------------------------------------------------
(* The manager as one value, so that a handler is a function of it *)

Self == [ left |-> left, center |-> center, right |-> right, cache |-> cache,
          dir_tx |-> dir_tx, prev_tx |-> prev_tx, delayed |-> delayed,
          mode |-> mode, clipboard |-> clipboard, show_hidden |-> show_hidden,
          show_log |-> show_log, redraw |-> redraw, layout |-> layout,
          previous |-> previous, pre_console_path |-> pre_console_path,
          parser |-> parser, fs |-> fs, temp |-> temp, logs |-> logs, log_signal |-> log_signal,
          tasks |-> tasks ]

Becomes(m) ==
    /\ left' = m.left
    /\ center' = m.center
    /\ right' = m.right
    /\ cache' = m.cache
    /\ dir_tx' = m.dir_tx
    /\ prev_tx' = m.prev_tx
    /\ delayed' = m.delayed
    /\ mode' = m.mode
    /\ clipboard' = m.clipboard
    /\ show_hidden' = m.show_hidden
    /\ show_log' = m.show_log
    /\ redraw' = m.redraw
    /\ layout' = m.layout
    /\ previous' = m.previous
    /\ pre_console_path' = m.pre_console_path
    /\ parser' = m.parser
    /\ fs' = m.fs
    /\ temp' = m.temp
    /\ logs' = m.logs
    /\ log_signal' = m.log_signal
    /\ tasks' = m.tasks

\* the generations of m stay within the bound of the model, and a handler
\* adds requests only to a queue that holds fewer than MaxChan
Fits(m) ==
    /\ m.left.state.gen <= MaxGen
    /\ m.center.state.gen <= MaxGen
    /\ m.right.state.gen <= MaxGen
    /\ Len(m.dir_tx) > Len(dir_tx) => Len(dir_tx) < MaxChan
    /\ Len(m.prev_tx) > Len(prev_tx) => Len(prev_tx) < MaxChan

\* error!(..): the line is kept by kind; info!(..) only signals the logger
error(m, kind) == [ m EXCEPT !.logs = @ \cup { kind }, !.log_signal = TRUE ]

info(m) == [ m EXCEPT !.log_signal = TRUE ]

----------------------------------------------------------------------------
(* ManagedPanel<P> (section 4.2) *)

NoState == [ path |-> None, gen |-> 0 ]

NewSlot == [ panel |-> EmptyPanel(None), state |-> NoState, frozen |-> FALSE ]

NewPreviewSlot ==
    [ panel |-> [ kind |-> "Empty", panel |-> EmptyPanel(None) ],
      state |-> NoState, frozen |-> FALSE ]

Cached(c, p) == \E e \in c : e.path = p

CacheGet(c, p) == IF Cached(c, p) THEN CHOOSE e \in c : e.path = p ELSE EmptyPanel(p)

CachePut(c, e) == IF e.path = None THEN c ELSE { x \in c : x.path # e.path } \cup { e }

\* left.new_panel_instant(p), center.new_panel_instant(p)
new_panel_instant(m, s, p) ==
    LET st == [ path |-> p, gen |-> m[s].state.gen + 1 ]
    IN  [ m EXCEPT ![s].panel = CacheGet(m.cache, p),
                   ![s].state = st,
                   !.dir_tx = Append(@, [ state |-> st, at |-> "await" ]) ]

\* right.new_panel_delayed(p): the generation advances now, the request
\* fires after the quiet period
new_panel_delayed(m, p) ==
    LET st == [ path |-> p, gen |-> m.right.state.gen + 1 ]
    IN  [ m EXCEPT !.right.state = st, !.delayed = st ]

\* left.update_panel(panel), center.update_panel(panel)
update_panel(m, s, panel) ==
    [ m EXCEPT ![s].panel = panel,
               ![s].state = [ path |-> panel.path, gen |-> m[s].state.gen + 1 ],
               !.cache = CachePut(@, panel) ]

\* right.update_panel(preview)
update_preview(m, pv) ==
    [ m EXCEPT !.right.panel = pv,
               !.right.state = [ path |-> maybe_path(pv), gen |-> m.right.state.gen + 1 ] ]

check_update(slot, st) == st = slot.state /\ ~slot.frozen

freeze(m, s) == [ m EXCEPT ![s].frozen = TRUE ]

unfreeze(m, s) == [ m EXCEPT ![s].frozen = FALSE ]

\* left.reload(), center.reload()
reload(m, s) ==
    LET st == [ path |-> m[s].state.path, gen |-> m[s].state.gen + 1 ]
    IN  [ m EXCEPT ![s].state = st,
                   !.dir_tx = Append(@, [ state |-> st, at |-> "await" ]) ]

\* right.reload()
reload_preview(m) ==
    LET st == [ path |-> m.right.state.path, gen |-> m.right.state.gen + 1 ]
    IN  [ m EXCEPT !.right.state = st, !.prev_tx = Append(@, st) ]

----------------------------------------------------------------------------
(* Redraw *)

Flags == { "left", "center", "right", "console", "log", "header", "footer" }

AllSet == [ f \in Flags |-> TRUE ]

any(r) ==
    r.left \/ r.center \/ r.right \/ r.console \/ r.header \/ r.footer \/ r.log

redraw_header(m) == [ m EXCEPT !.redraw.header = TRUE ]

redraw_footer(m) == [ m EXCEPT !.redraw.footer = TRUE ]

redraw_panels(m) ==
    [ m EXCEPT !.redraw.left = TRUE, !.redraw.center = TRUE, !.redraw.right = TRUE,
               !.redraw.header = TRUE, !.redraw.footer = TRUE ]

redraw_left(m) == [ m EXCEPT !.redraw.left = TRUE, !.redraw.log = TRUE ]

redraw_center(m) ==
    [ m EXCEPT !.redraw.center = TRUE, !.redraw.footer = TRUE,
               !.redraw.header = TRUE, !.redraw.log = TRUE ]

redraw_right(m) == [ m EXCEPT !.redraw.right = TRUE, !.redraw.log = TRUE ]

redraw_console(m) == [ m EXCEPT !.redraw.console = TRUE ]

redraw_everything(m) ==
    [ m EXCEPT !.redraw.header = TRUE, !.redraw.footer = TRUE, !.redraw.left = TRUE,
               !.redraw.center = TRUE, !.redraw.right = TRUE, !.redraw.console = TRUE ]

redraw_log(m) == [ m EXCEPT !.redraw.log = TRUE ]

draw_log(m) ==
    IF ~m.redraw.log \/ ~m.show_log THEN m ELSE [ m EXCEPT !.redraw.log = FALSE ]

draw_header(m) ==
    IF ~m.redraw.header THEN m ELSE [ m EXCEPT !.redraw.header = FALSE ]

draw_footer(m) ==
    IF ~m.redraw.footer THEN m
    ELSE IF m.mode.kind \in { "Search", "Rename", "CreateItem" } THEN m
    ELSE [ m EXCEPT !.redraw.footer = FALSE ]

draw_panels(m) ==
    [ m EXCEPT !.redraw.left = FALSE, !.redraw.center = FALSE, !.redraw.right = FALSE ]

draw_console(m) ==
    IF m.redraw.console THEN [ m EXCEPT !.redraw.console = FALSE ] ELSE m

draw(m) ==
    IF ~any(m.redraw) THEN m
    ELSE draw_log(draw_console(draw_panels(draw_header(draw_footer(m)))))

----------------------------------------------------------------------------
(* Mode, Clipboard, MillerColumns *)

Normal == [ kind |-> "Normal", input |-> << >>, is_dir |-> FALSE ]

NoClipboard == [ some |-> FALSE, files |-> << >>, cut |-> FALSE ]

\* MillerColumns::from_size((w, h)): the ranges are functions of the size
from_size(w, h) == [ width |-> w, height |-> h ]

Sizes == 1..MaxSize

\* usize::MAX, as far as the model's integers go
usize_MAX == 2147483647

----------------------------------------------------------------------------
(* Marks *)

\* marked_items that looks at the center panel alone
marked_items_center(m) == MarkedElems(m.center.panel)

marked_items(m) ==
    MarkedElems(m.left.panel) \o MarkedElems(m.center.panel)
        \o (IF m.right.panel.kind = "Dir" THEN MarkedElems(m.right.panel.panel) ELSE << >>)

unmark_left_right(m) ==
    redraw_panels(
        [ m EXCEPT !.left.panel = unmark(@),
                   !.right.panel = IF @.kind = "Dir"
                                   THEN [ @ EXCEPT !.panel = unmark(@) ] ELSE @ ])

unmark_all_items(m) == unmark_left_right([ m EXCEPT !.center.panel = unmark(@) ])

\* the manager afterwards and the paths returned
marked_or_selected(m) ==
    LET files == marked_items(m)
        m1 == [ m EXCEPT !.center.panel = mark_selected_item(@) ]
    IN  IF files = << >>
        THEN [ m |-> m1,
               files |-> IF selected_path(m1.center.panel) # None
                         THEN << selected_path(m1.center.panel) >> ELSE << >> ]
        ELSE [ m |-> m, files |-> files ]

----------------------------------------------------------------------------
(* Movement *)

\* lines 511-524
toggle_hidden(m) ==
    LET m1 == [ m EXCEPT !.show_hidden = ~@ ]
        m2 == [ m1 EXCEPT !.left.panel = set_hidden(@, m1.show_hidden),
                          !.center.panel = set_hidden(@, m1.show_hidden),
                          !.right.panel = IF @.kind = "Dir"
                                          THEN [ @ EXCEPT !.panel = set_hidden(@, m1.show_hidden) ]
                                          ELSE @ ]
        m3 == [ m2 EXCEPT !.left.panel = select_path(@, m2.center.panel.path) ]
    IN  redraw_everything(m3)

toggle_log(m) ==
    LET m1 == [ m EXCEPT !.show_log = ~@ ]
    IN  IF m1.show_log THEN redraw_log(m1) ELSE redraw_everything(m1)

select(m, path) ==
    IF selected_path(m.center.panel) = path THEN m
    ELSE LET m1 == [ m EXCEPT !.center.panel = select_path(@, path) ]
         IN  redraw_right(redraw_center(
                 new_panel_delayed(m1, selected_path(m1.center.panel))))

\* move_up that asks for the preview whether or not the selection moved
move_up_always(m, step) ==
    LET m1 == [ m EXCEPT !.center.panel = up(@, step) ]
    IN  redraw_right(redraw_center(
            new_panel_delayed(m1, selected_path(m1.center.panel))))

move_up(m, step) ==
    LET m1 == [ m EXCEPT !.center.panel = up(@, step) ]
    IN  IF m1.center.panel # m.center.panel
        THEN redraw_right(redraw_center(
                 new_panel_delayed(m1, selected_path(m1.center.panel))))
        ELSE m

\* move_down that moves the selection and asks for no preview
move_down_late(m, step) ==
    LET m1 == [ m EXCEPT !.center.panel = down(@, step) ]
    IN  IF m1.center.panel # m.center.panel THEN redraw_right(redraw_center(m1)) ELSE m

move_down(m, step) ==
    LET m1 == [ m EXCEPT !.center.panel = down(@, step) ]
    IN  IF m1.center.panel # m.center.panel
        THEN redraw_right(redraw_center(
                 new_panel_delayed(m1, selected_path(m1.center.panel))))
        ELSE m

\* move_right, the selection being a directory (lines 575-581, 605)
move_right_dir(m) ==
    LET m1 == [ m EXCEPT !.previous = m.center.panel.path ]
        m2 == update_panel(m1, "left", m1.center.panel)
        m3 == new_panel_instant(m2, "center", maybe_path(m2.right.panel))
        m4 == new_panel_delayed(m3, selected_path(m3.center.panel))
    IN  unmark_left_right(redraw_panels(m4))

\* move_right, the selection being no directory, up to the call of
\* opener.open (lines 594-596)
move_right_open(m) == freeze(info(m), "center")

\* move_right_opened without the call of unfreeze
move_right_opened_frozen(m, ok) ==
    LET m1 == IF ok THEN m ELSE error(m, "Opening failed")
    IN  unmark_left_right(redraw_everything(m1))

\* move_right after opener.open has returned (lines 596-605)
move_right_opened(m, ok) ==
    LET m1 == IF ok THEN m ELSE error(m, "Opening failed")
    IN  unmark_left_right(redraw_everything(unfreeze(m1, "center")))

move_left(m) ==
    IF selected_path(m.left.panel) = None THEN m
    ELSE LET m1 == [ m EXCEPT !.previous = m.center.panel.path ]
             m2 == update_preview(m1, [ kind |-> "Dir", panel |-> m1.center.panel ])
             m3 == update_panel(m2, "center", m2.left.panel)
             m4 == new_panel_instant(m3, "left", parent(m3.center.panel.path))
             m5 == [ m4 EXCEPT !.left.panel = select_path(@, m4.center.panel.path) ]
         IN  redraw_panels(unmark_left_right(m5))

\* jump without the comparison of path with the center's path
jump_always(m, path) ==
    IF exists(m.fs, path)
    THEN LET m1 == [ m EXCEPT !.previous = m.center.panel.path ]
             m2 == new_panel_instant(m1, "left", parent(path))
             m3 == [ m2 EXCEPT !.left.panel = select_path(@, path) ]
             m4 == new_panel_instant(m3, "center", path)
             m5 == new_panel_delayed(m4, selected_path(m4.center.panel))
         IN  redraw_panels(m5)
    ELSE m

jump(m, path) ==
    IF path = m.center.panel.path THEN m
    ELSE IF exists(m.fs, path)
    THEN LET m1 == [ m EXCEPT !.previous = m.center.panel.path ]
             m2 == new_panel_instant(m1, "left", parent(path))
             m3 == [ m2 EXCEPT !.left.panel = select_path(@, path) ]
             m4 == new_panel_instant(m3, "center", path)
             m5 == new_panel_delayed(m4, selected_path(m4.center.panel))
         IN  redraw_panels(m5)
    ELSE m

Moves == { "Up", "Down", "Left", "Right", "Top", "Bottom", "HalfPageForward",
           "HalfPageBackward", "PageForward", "PageBackward", "JumpPrevious" }

\* Move::Right is a directory move here; a selection that is no directory
\* goes through move_right_open and move_right_opened
move_cursor(m, movement) ==
    CASE movement = "Up" -> move_up(m, 1)
      [] movement = "Down" -> move_down(m, 1)
      [] movement = "Left" -> move_left(m)
      [] movement = "Right" ->
            IF selected_path(m.center.panel) = None THEN m ELSE move_right_dir(m)
      [] movement = "Top" -> move_up(m, usize_MAX)
      [] movement = "Bottom" -> move_down(m, usize_MAX)
      [] movement = "HalfPageForward" -> move_down(m, m.layout.height \div 2)
      [] movement = "HalfPageBackward" -> move_up(m, m.layout.height \div 2)
      [] movement = "PageForward" -> move_down(m, m.layout.height)
      [] movement = "PageBackward" -> move_up(m, m.layout.height)
      [] movement = "JumpPrevious" -> jump(m, m.previous)

----------------------------------------------------------------------------
(* The bulk-rename file: a text of names and newlines *)

NL == "\n"

\* names an editor may write into the file
EditNames == { "a", "x" }

NoTemp == [ exists |-> FALSE, text |-> << >> ]

\* old_names: the file names joined by "\n" (lines 1076-1080)
RECURSIVE join(_)
join(names) ==
    IF names = << >> THEN << >>
    ELSE IF Len(names) = 1 THEN names
    ELSE << Head(names), NL >> \o join(Tail(names))

RECURSIVE trim_start(_)
trim_start(t) == IF t # << >> /\ Head(t) = NL THEN trim_start(Tail(t)) ELSE t

RECURSIVE trim_end(_)
trim_end(t) ==
    IF t # << >> /\ t[Len(t)] = NL THEN trim_end(SubSeq(t, 1, Len(t) - 1)) ELSE t

\* contents.trim_matches('\n')
trim_matches(t) == trim_end(trim_start(t))

\* str::lines(): the lines between newlines as file names ("" for an empty
\* line); a newline at the very end opens no further line
RECURSIVE lines(_)
lines(t) ==
    IF t = << >> THEN << >>
    ELSE IF Head(t) = NL THEN << "" >> \o lines(Tail(t))
    ELSE IF Len(t) = 1 THEN << Head(t) >>
    ELSE << Head(t) >> \o lines(SubSeq(t, 3, Len(t)))

\* the texts an editor can leave: a line holds at most one name
Texts ==
    { t \in UNION { [ 1..n -> EditNames \cup { NL } ] : n \in 0..MaxText } :
        \A i \in 1..(Len(t) - 1) : t[i] = NL \/ t[i + 1] = NL }

----------------------------------------------------------------------------
(* bulkrename (lines 1073-1130) *)

\* what the environment lets fail in one call of bulkrename, beyond what the
\* state of the file system makes fail
IoFaults == { "none", "remove", "read", "rename1", "rename2", "cleanup" }

\* lines 1075-1086: the file is written, the center frozen, the opener called
bulkrename_open(m, old_paths) ==
    freeze(info([ m EXCEPT !.temp = [ exists |-> TRUE,
                                        text |-> join([ i \in 1..Len(old_paths) |->
                                                         old_paths[i][Len(old_paths[i])] ]) ] ]),
           "center")

\* lines 1114-1121: the renames in order, stopping at the first that fails
RECURSIVE rename_all(_, _, _, _, _)
rename_all(f, old_paths, new_paths, i, io) ==
    IF i > Len(old_paths) THEN [ fs |-> f, err |-> FALSE ]
    ELSE IF (io = "rename1" /\ i = 1) \/ (io = "rename2" /\ i = 2)
            \/ ~RenamePossible(f, old_paths[i], new_paths[i])
    THEN [ fs |-> f, err |-> TRUE ]
    ELSE rename_all(Renamed(f, old_paths[i], new_paths[i]), old_paths, new_paths, i + 1, io)

\* lines 1125-1129
bulkrename_cleanup(m, io) ==
    IF m.temp.exists /\ io # "cleanup"
    THEN [ m |-> redraw_everything(unfreeze([ m EXCEPT !.temp = NoTemp ], "center")),
           err |-> FALSE ]
    ELSE [ m |-> m, err |-> TRUE ]

\* a collision check that finds nothing
collisions_ignored(f, new_paths) == { }

\* lines 1108: the new paths that exist already
collisions(f, new_paths) == { i \in 1..Len(new_paths) : exists(f, new_paths[i]) }

\* lines 1086-1129: from the return of opener.open to the return of
\* bulkrename; contents is what the editor left in the file, and err tells
\* that bulkrename returned Err
bulkrename_opened(m, old_paths, ok, contents, io) ==
    IF ~ok
    THEN LET m1 == error(m, "Opening bulkrename file failed")
         IN  IF m1.temp.exists /\ io # "remove"
             THEN bulkrename_cleanup([ m1 EXCEPT !.temp = NoTemp ], io)
             ELSE [ m |-> m1, err |-> TRUE ]
    ELSE IF ~m.temp.exists \/ io = "read"
    THEN [ m |-> m, err |-> TRUE ]
    ELSE LET new_file_names == lines(trim_matches(contents))
         IN  IF Len(new_file_names) # Len(old_paths)
             THEN bulkrename_cleanup(error(m, "Bulkrename line count"), io)
             ELSE LET new_paths == [ i \in 1..Len(old_paths) |->
                                       with_file_name(old_paths[i], new_file_names[i]) ]
                  IN  IF collisions(m.fs, new_paths) # {}
                      THEN bulkrename_cleanup(error(m, "Bulkrename collision"), io)
                      ELSE LET r == rename_all(m.fs, old_paths, new_paths, 1, io)
                               m1 == IF old_paths = << >> THEN m
                                     ELSE info([ m EXCEPT !.fs = r.fs ])
                           IN  IF r.err THEN [ m |-> m1, err |-> TRUE ]
                               ELSE bulkrename_cleanup(m1, io)

----------------------------------------------------------------------------
(* handle_event (lines 809-1070) *)

\* parser.add_event for the Esc key: the parser, its buffer cleared, has no
\* command for it
add_event_esc == "None"

\* parser.add_event(key) that returns a command: the key completes a binding
\* or fits none, and no binding is in progress afterwards
add_event(m) == [ m EXCEPT !.parser = << >> ]

\* parser.add_event(key) for a key that begins or continues a binding: the key
\* joins the buffer and the command is Command::None
add_event_prefix(m, key) == [ m EXCEPT !.parser = Append(@, key) ]

\* the keys that begin a binding of more than one key
PrefixKeys == { "g" }

\* the commands of Normal mode that neither call the opener nor end the loop
Commands == { "ToggleHidden", "ToggleLog", "Cd", "Search", "Mkdir", "Touch", "Mark", "Cut", "Copy", "None" }

normal_command(m, cmd) ==
    CASE cmd = "ToggleLog" -> toggle_log(m)
      [] cmd = "ToggleHidden" -> toggle_hidden(m)
      [] cmd = "Cd" ->
            redraw_console([ m EXCEPT !.pre_console_path = m.center.panel.path,
                                      !.mode = [ kind |-> "Console", input |-> << >>,
                                                 is_dir |-> FALSE ] ])
      [] cmd = "Search" ->
            redraw_footer([ m EXCEPT !.mode = [ kind |-> "Search", input |-> << >>,
                                                is_dir |-> FALSE ] ])
      [] cmd = "Mkdir" ->
            redraw_footer([ m EXCEPT !.mode = [ kind |-> "CreateItem", input |-> << >>,
                                                is_dir |-> TRUE ] ])
      [] cmd = "Touch" ->
            redraw_footer([ m EXCEPT !.mode = [ kind |-> "CreateItem", input |-> << >>,
                                                is_dir |-> FALSE ] ])
      [] cmd = "Mark" ->
            move_cursor([ m EXCEPT !.center.panel = mark_selected_item(@) ], "Down")
      [] cmd = "Cut" ->
            LET r == marked_or_selected(m)
            IN  info([ r.m EXCEPT !.clipboard = [ some |-> TRUE, files |-> r.files,
                                                  cut |-> TRUE ] ])
      [] cmd = "Copy" ->
            LET r == marked_or_selected(m)
            IN  info([ r.m EXCEPT !.clipboard = [ some |-> TRUE, files |-> r.files,
                                                  cut |-> FALSE ] ])
      [] cmd = "None" -> redraw_footer(m)

\* Command::Rename with exactly one path (lines 848-854)
rename_single(m, paths) ==
    redraw_footer([ m EXCEPT !.mode = [ kind |-> "Rename",
                                        input |-> << paths[1][Len(paths[1])] >>,
                                        is_dir |-> FALSE ] ])

\* the Esc key that leaves the marks of the left and the right panel
handle_esc_center(m) ==
    LET m1 == IF m.mode.kind = "Console" THEN jump(m, m.pre_console_path) ELSE m
        m2 == [ m1 EXCEPT !.mode = Normal, !.parser = << >>,
                          !.center.panel = unmark(clear_search(@)) ]
    IN  normal_command(redraw_footer(redraw_panels(m2)), add_event_esc)

\* the Esc key (lines 812-822), then the Normal arm on the same key
handle_esc(m) ==
    LET m1 == IF m.mode.kind = "Console" THEN jump(m, m.pre_console_path) ELSE m
        m2 == [ m1 EXCEPT !.mode = Normal, !.parser = << >>,
                          !.center.panel = clear_search(@) ]
        m3 == unmark_all_items(redraw_footer(redraw_panels(m2)))
    IN  normal_command(m3, add_event_esc)

\* trash_dir.path(): a temporary directory outside the listed tree
Trash == << "tmp", "trash" >>

file_name(p) == p[Len(p)]

\* util::get_destination(src, dest_dir): the name of src under dest_dir,
\* suffixed until nothing of that name is there
get_destination(f, src, dest_dir) ==
    LET base == Append(dest_dir, file_name(src))
        cand(k) == base \o [ i \in 1..k |-> "+" ]
        taken == Cardinality(f.dirs \cup f.files)
    IN  cand(CHOOSE k \in 0..taken :
                 /\ ~exists(f, cand(k))
                 /\ \A j \in 0..(k - 1) : exists(f, cand(j)))

\* the loop of Command::Delete (lines 907-914): each file is renamed into the
\* trash; a rename fails when the file is gone or when the environment (fail)
\* refuses it
RECURSIVE trash_files(_, _, _, _)
trash_files(f, files, i, fail) ==
    IF i > Len(files) THEN [ fs |-> f, failed |-> FALSE ]
    ELSE LET ok == exists(f, files[i]) /\ files[i] \notin fail
             r  == trash_files(IF ok
                               THEN Renamed(f, files[i], get_destination(f, files[i], Trash))
                               ELSE f,
                               files, i + 1, fail)
         IN  [ fs |-> r.fs, failed |-> r.failed \/ ~ok ]

\* Command::Delete that takes the selection whatever is marked
delete_selected(m, fail) ==
    LET files == IF selected_path(m.center.panel) # None
                 THEN << selected_path(m.center.panel) >> ELSE << >>
        m1 == unmark_all_items(info(m))
        t  == trash_files(m1.fs, files, 1, fail)
        m2 == [ m1 EXCEPT !.fs = t.fs ]
        m3 == IF t.failed THEN error(m2, "Delete failed") ELSE m2
    IN  reload_preview(reload(reload(m3, "left"), "center"))

\* Command::Delete (lines 902-918)
delete(m, fail) ==
    LET r  == marked_or_selected(m)
        m1 == unmark_all_items(info(r.m))
        t  == trash_files(m1.fs, r.files, 1, fail)
        m2 == [ m1 EXCEPT !.fs = t.fs ]
        m3 == IF t.failed THEN error(m2, "Delete failed") ELSE m2
    IN  reload_preview(reload(reload(m3, "left"), "center"))

\* Command::Delete as the key handler runs it (lines 902-918): for the files
\* of nodest get_destination returns an Err, and the unwrap() of line 909
\* panics on the first of them, after the files before it have been renamed
\* and before any reload
delete_event(m, fail, nodest) ==
    LET r    == marked_or_selected(m)
        stop == { i \in DOMAIN r.files : r.files[i] \in nodest }
    IN  IF stop = { } THEN [ m |-> delete(m, fail), panicked |-> FALSE ]
        ELSE LET k  == CHOOSE i \in stop : \A j \in stop : i <= j
                 m1 == unmark_all_items(info(r.m))
                 t  == trash_files(m1.fs, SubSeq(r.files, 1, k - 1), 1, fail)
                 m2 == [ m1 EXCEPT !.fs = t.fs ]
             IN  [ m |-> IF t.failed THEN error(m2, "Delete failed") ELSE m2,
                   panicked |-> TRUE ]

\* Command::Paste that leaves the clipboard as it is
paste_keeping(m, overwrite) ==
    LET m1 == unmark_all_items(m)
        m2 == [ m1 EXCEPT !.tasks = Append(@, [ clipboard |-> m1.clipboard,
                                                current_path |-> m1.center.panel.path,
                                                overwrite |-> overwrite ]) ]
    IN  redraw_panels(reload_preview(reload(reload(m2, "left"), "center")))

\* Command::Paste (lines 919-946): the clipboard is taken and the closure that
\* holds it is handed to spawn_blocking
paste(m, overwrite) ==
    LET m1 == unmark_all_items(m)
        m2 == [ m1 EXCEPT !.clipboard = NoClipboard,
                          !.tasks = Append(@, [ clipboard |-> m1.clipboard,
                                                current_path |-> m1.center.panel.path,
                                                overwrite |-> overwrite ]) ]
    IN  redraw_panels(reload_preview(reload(reload(m2, "left"), "center")))

\* util::move_item(src, dest_dir): a rename to the name of src under dest_dir
move_item(f, src, dest_dir) ==
    LET to == Append(dest_dir, file_name(src))
    IN  IF src # Root /\ RenamePossible(f, src, to)
        THEN [ fs |-> Renamed(f, src, to), failed |-> FALSE ]
        ELSE [ fs |-> f, failed |-> TRUE ]

\* util::copy_item(src, dest_dir): a recursive copy under dest_dir
copy_item(f, src, dest_dir) ==
    LET to == Append(dest_dir, file_name(src))
    IN  IF src = Root \/ ~exists(f, src) \/ ~is_dir(f, dest_dir) \/ IsPrefix(src, to)
           \/ (src \in f.files /\ to \in f.dirs) \/ (src \in f.dirs /\ to \in f.files)
        THEN [ fs |-> f, failed |-> src = Root \/ ~exists(f, src) \/ to # src ]
        ELSE IF src \in f.files
        THEN [ fs |-> [ f EXCEPT !.files = @ \cup { to } ], failed |-> FALSE ]
        ELSE [ fs |-> [ dirs  |-> f.dirs \cup { Rebase(q, src, to) :
                                                q \in { r \in f.dirs : IsPrefix(src, r) } },
                        files |-> f.files \cup { Rebase(q, src, to) :
                                                  q \in { r \in f.files : IsPrefix(src, r) } } ],
               failed |-> FALSE ]

\* the loop of the closure of Command::Paste (lines 930-940)
RECURSIVE paste_files(_, _, _)
paste_files(f, job, i) ==
    IF i > Len(job.clipboard.files) THEN [ fs |-> f, failed |-> FALSE ]
    ELSE LET one == IF job.clipboard.cut
                    THEN move_item(f, job.clipboard.files[i], job.current_path)
                    ELSE copy_item(f, job.clipboard.files[i], job.current_path)
             r   == paste_files(one.fs, job, i + 1)
         IN  [ fs |-> r.fs, failed |-> r.failed \/ one.failed ]

\* the closure of Command::Paste (lines 923-941)
paste_task(f, job) ==
    IF job.clipboard.some THEN paste_files(f, job, 1) ELSE [ fs |-> f, failed |-> FALSE ]

\* the name that the typed input stands for; a typed name is one token
input_name(input) == IF input = << >> THEN "" ELSE input[1]

\* Char(c) that is handed to the parser as well
mode_char_parsed(m, c) ==
    LET m1 == add_event_prefix([ m EXCEPT !.mode.input = Append(@, c) ], c)
    IN  IF m.mode.kind = "Rename" THEN redraw_center(m1) ELSE redraw_footer(m1)

\* Char(c) in CreateItem and Rename mode (lines 1012-1015, 1054-1056, 1060)
mode_char(m, c) ==
    LET m1 == [ m EXCEPT !.mode.input = Append(@, c) ]
    IN  IF m.mode.kind = "Rename" THEN redraw_center(m1) ELSE redraw_footer(m1)

\* Backspace in CreateItem and Rename mode (lines 984-987, 1057-1060)
mode_backspace(m) ==
    LET m1 == [ m EXCEPT !.mode.input = IF @ = << >> THEN @ ELSE SubSeq(@, 1, Len(@) - 1) ]
    IN  IF m.mode.kind = "Rename" THEN redraw_center(m1) ELSE redraw_footer(m1)

\* the keys that no arm names: Tab in CreateItem mode (lines 1008-1011), any
\* other key in Console and CreateItem mode (lines 980, 1016), and the keys of
\* Rename mode that are neither Enter, Char nor Backspace (line 1060)
mode_other(m, key) ==
    IF m.mode.kind = "Rename" THEN redraw_center(m)
    ELSE IF m.mode.kind = "CreateItem" /\ key = "Tab" THEN redraw_footer(m)
    ELSE m

\* Enter in CreateItem mode (lines 988-1007)
create_item_enter(m) ==
    LET current_path == m.center.panel.path
        item == IF input_name(m.mode.input) = "" THEN current_path
                ELSE Append(current_path, input_name(m.mode.input))
        room == item # None /\ ~exists(m.fs, item) /\ is_dir(m.fs, parent(item))
        ok   == IF m.mode.is_dir THEN room ELSE room \/ item \in m.fs.files
        f1   == IF ~room THEN m.fs
                ELSE IF m.mode.is_dir THEN [ m.fs EXCEPT !.dirs = @ \cup { item } ]
                ELSE [ m.fs EXCEPT !.files = @ \cup { item } ]
        m1   == IF ok THEN [ m EXCEPT !.fs = f1 ] ELSE error(m, "Create failed")
    IN  redraw_panels([ m1 EXCEPT !.mode = Normal ])

\* Enter in Rename mode (lines 1041-1052)
rename_enter(m) ==
    LET from == selected_path(m.center.panel)
        to   == with_file_name(from, input_name(m.mode.input))
        m1   == IF from = None THEN m
                ELSE IF RenamePossible(m.fs, from, to)
                THEN [ m EXCEPT !.fs = Renamed(@, from, to) ]
                ELSE error(m, "Rename failed")
        m2   == [ m1 EXCEPT !.mode = Normal ]
    IN  redraw_panels(reload_preview(reload(m2, "center")))

\* the keys of Search mode other than Enter (lines 1029-1038): key is a
\* character, "Backspace" or "Other"
search_key(m, key) ==
    LET input == IF key = "Backspace"
                 THEN (IF m.mode.input = << >> THEN << >>
                       ELSE SubSeq(m.mode.input, 1, Len(m.mode.input) - 1))
                 ELSE IF key = "Other" THEN m.mode.input
                 ELSE Append(m.mode.input, key)
    IN  redraw_center([ m EXCEPT !.mode.input = input,
                                 !.center.panel = update_search(@, input) ])

\* search_enter that sets no redraw flag
search_enter_quiet(m) ==
    LET m1 == [ m EXCEPT !.center.panel =
                            select_next_marked(finish_search(@, m.mode.input)) ]
        m2 == new_panel_delayed(m1, selected_path(m1.center.panel))
    IN  [ m2 EXCEPT !.mode = Normal ]

\* Enter in Search mode (lines 1021-1028)
search_enter(m) ==
    LET m1 == [ m EXCEPT !.center.panel =
                            select_next_marked(finish_search(@, m.mode.input)) ]
        m2 == new_panel_delayed(m1, selected_path(m1.center.panel))
    IN  redraw_right(redraw_center([ m2 EXCEPT !.mode = Normal ]))

\* the paths a DirConsole can hand out: console.insert, del, tab and backtab
\* return a directory that matches the query, or None
ConsolePaths(f) == f.dirs \cup { None }

\* a key of Console mode other than Enter (lines 952-957, 962-979), path being
\* what the console returned
console_key(m, path) ==
    redraw_console(IF path # None THEN jump(m, path) ELSE m)

\* the Enter key in Console mode (lines 958-961)
console_enter(m) == redraw_panels([ m EXCEPT !.mode = Normal ])

\* Command::Quit that first jumps to the previous path
handle_quit_jumping(m) == [ m |-> jump(m, m.previous), shut_down |-> TRUE ]

\* Command::Quit (line 947): the manager afterwards and what handle_event
\* returns
handle_quit(m) == [ m |-> m, shut_down |-> TRUE ]

\* Event::Resize (lines 1065-1068)
handle_resize(m, sx, sy) == redraw_everything([ m EXCEPT !.layout = from_size(sx, sy) ])

----------------------------------------------------------------------------
(* run (lines 728-804): the arms of the select *)

\* the directory arm without check_update: every completion goes to the center
dir_arm_unchecked(m, msg) ==
    LET m1 == update_panel(m, "center", msg.panel)
        m2 == new_panel_delayed(m1, selected_path(m1.center.panel))
    IN  redraw_console(redraw_right(redraw_center(m2)))

\* the directory arm that asks for no preview after updating the center
dir_arm_no_preview(m, msg) ==
    IF check_update(m.center, msg.state)
    THEN redraw_console(redraw_right(redraw_center(update_panel(m, "center", msg.panel))))
    ELSE IF check_update(m.left, msg.state)
    THEN LET m1 == update_panel(m, "left", msg.panel)
             m2 == [ m1 EXCEPT !.left.panel = select_path(@, m1.center.panel.path) ]
         IN  redraw_console(redraw_left(m2))
    ELSE error(m, "unknown panel update")

dir_arm(m, msg) ==
    IF check_update(m.center, msg.state)
    THEN LET m1 == update_panel(m, "center", msg.panel)
             m2 == new_panel_delayed(m1, selected_path(m1.center.panel))
         IN  redraw_console(redraw_right(redraw_center(m2)))
    ELSE IF check_update(m.left, msg.state)
    THEN LET m1 == update_panel(m, "left", msg.panel)
             m2 == [ m1 EXCEPT !.left.panel = select_path(@, m1.center.panel.path) ]
         IN  redraw_console(redraw_left(m2))
    ELSE error(m, "unknown panel update")

prev_arm(m, msg) ==
    IF check_update(m.right, msg.state)
    THEN redraw_console(redraw_right(update_preview(m, msg.panel)))
    ELSE m

\* the last lines of run() that forget the terminal
cleanup_unrestored(m) == [ restored |-> FALSE, path |-> m.center.panel.path ]

\* the last lines of run() (798-803): Clear, MoveTo(0, 0) and Show are written
\* and flushed, and the path of the center panel is returned
cleanup(m) == [ restored |-> TRUE, path |-> m.center.panel.path ]

\* PanelManager::new (lines 121-184)
new ==
    LET m0 == [ left |-> NewSlot, center |-> NewSlot, right |-> NewPreviewSlot,
                cache |-> {}, dir_tx |-> << >>, prev_tx |-> << >>, delayed |-> NoState,
                mode |-> Normal, clipboard |-> NoClipboard, show_hidden |-> FALSE,
                show_log |-> FALSE, redraw |-> AllSet, layout |-> from_size(1, 1),
                previous |-> StartDir, pre_console_path |-> StartDir,
                parser |-> << >>,
                fs |-> InitFs, temp |-> NoTemp, logs |-> {}, log_signal |-> FALSE,
                tasks |-> << >> ]
        m1 == new_panel_instant(m0, "left", parent(StartDir))
        m2 == new_panel_instant(m1, "center", StartDir)
        st == [ path |-> selected_path(m2.center.panel), gen |-> m2.right.state.gen + 1 ]
        m3 == [ m2 EXCEPT !.right.state = st, !.prev_tx = Append(@, st) ]
    IN  [ m3 EXCEPT !.left.panel = select_path(@, m3.center.panel.path) ]

NoCall == [ path |-> None, old_paths |-> << >> ]

\* run() has not reached its last lines
NotReturned == [ restored |-> FALSE, path |-> None ]

TempPath == << "tmp", "rfm_bulkrename" >>

Is(m) ==
    /\ left = m.left
    /\ center = m.center
    /\ right = m.right
    /\ cache = m.cache
    /\ dir_tx = m.dir_tx
    /\ prev_tx = m.prev_tx
    /\ delayed = m.delayed
    /\ mode = m.mode
    /\ clipboard = m.clipboard
    /\ show_hidden = m.show_hidden
    /\ show_log = m.show_log
    /\ redraw = m.redraw
    /\ layout = m.layout
    /\ previous = m.previous
    /\ pre_console_path = m.pre_console_path
    /\ parser = m.parser
    /\ fs = m.fs
    /\ temp = m.temp
    /\ logs = m.logs
    /\ log_signal = m.log_signal
    /\ tasks = m.tasks

\* run() after its initial draw, awaiting the first event
Init ==
    /\ Is(draw(redraw_everything(new)))
    /\ dir_rx = << >>
    /\ prev_rx = << >>
    /\ opened = NoCall
    /\ pc = "await"
    /\ result = "running"
    /\ closed = { }
    /\ returned = NotReturned

----------------------------------------------------------------------------
(* Steps of the event loop *)

Loop == << dir_rx, prev_rx, opened, result, closed, returned >>

\* a key that the parser turns into a movement
KeyMove(d) ==
    /\ pc = "await"
    /\ mode.kind = "Normal"
    /\ d = "Right" /\ selected_path(center.panel) # None
         => is_dir(fs, selected_path(center.panel))
    /\ Fits(move_cursor(add_event(Self), d))
    /\ Becomes(move_cursor(add_event(Self), d))
    /\ pc' = "draw"
    /\ UNCHANGED Loop

\* Move::Right on a selection that is no directory: opener.open blocks
KeyMoveRightOpen ==
    /\ pc = "await"
    /\ mode.kind = "Normal"
    /\ selected_path(center.panel) # None
    /\ ~is_dir(fs, selected_path(center.panel))
    /\ Becomes(move_right_open(add_event(Self)))
    /\ opened' = [ path |-> selected_path(center.panel), old_paths |-> << >> ]
    /\ pc' = "open"
    /\ UNCHANGED << dir_rx, prev_rx, result, closed, returned >>

OpenReturns ==
    /\ pc = "open"
    /\ \E ok \in BOOLEAN : Becomes(move_right_opened(Self, ok))
    /\ opened' = NoCall
    /\ pc' = "draw"
    /\ UNCHANGED << dir_rx, prev_rx, result, closed, returned >>

\* a key that begins or continues a binding (Command::None, line 948)
KeyPrefix ==
    /\ pc = "await"
    /\ mode.kind = "Normal"
    /\ Len(parser) < MaxKeys
    /\ \E key \in PrefixKeys :
          Becomes(normal_command(add_event_prefix(Self, key), "None"))
    /\ pc' = "draw"
    /\ UNCHANGED Loop

\* a key that the parser turns into one of Commands
KeyCommand(cmd) ==
    /\ pc = "await"
    /\ mode.kind = "Normal"
    /\ Fits(normal_command(add_event(Self), cmd))
    /\ Becomes(normal_command(add_event(Self), cmd))
    /\ pc' = "draw"
    /\ UNCHANGED Loop

\* Command::Rename (lines 845-859)
KeyRename ==
    /\ pc = "await"
    /\ mode.kind = "Normal"
    /\ LET r == marked_or_selected(add_event(Self))
       IN  IF Len(r.files) = 1
           THEN /\ Becomes(rename_single(r.m, r.files))
                /\ pc' = "draw"
                /\ UNCHANGED Loop
           ELSE \E written \in BOOLEAN :
                  IF written
                  THEN /\ Becomes(bulkrename_open(r.m, r.files))
                       /\ opened' = [ path |-> TempPath, old_paths |-> r.files ]
                       /\ pc' = "bulk"
                       /\ UNCHANGED << dir_rx, prev_rx, result, closed, returned >>
                  ELSE /\ Becomes(r.m)
                       /\ pc' = "done"
                       /\ result' = "Err"
                       /\ UNCHANGED << dir_rx, prev_rx, opened, closed, returned >>

\* how a call of opener.open on the bulk-rename file can end: the opener
\* fails or succeeds, the file is kept or removed, the editor leaves contents
\* (written is what bulkrename wrote), and the environment lets one of the
\* later file operations fail
Outcomes(written) ==
    [ ok : { FALSE }, kept : BOOLEAN, contents : { written },
      io : { "none", "remove", "cleanup" } ]
    \cup [ ok : { TRUE }, kept : { FALSE }, contents : { written }, io : { "none" } ]
    \cup [ ok : { TRUE }, kept : { TRUE }, contents : Texts \cup { written },
           io : IoFaults \ { "remove" } ]

\* opener.open returns to bulkrename
BulkReturns ==
    /\ pc = "bulk"
    /\ \E o \in Outcomes(temp.text) :
          LET r == bulkrename_opened([ Self EXCEPT !.temp.exists = o.kept ],
                                     opened.old_paths, o.ok, o.contents, o.io)
          IN  /\ Becomes(r.m)
              /\ pc' = IF r.err THEN "done" ELSE "draw"
              /\ result' = IF r.err THEN "Err" ELSE result
    /\ opened' = NoCall
    /\ UNCHANGED << dir_rx, prev_rx, closed, returned >>

KeyEsc ==
    /\ pc = "await"
    /\ Fits(handle_esc(Self))
    /\ Becomes(handle_esc(Self))
    /\ pc' = "draw"
    /\ UNCHANGED Loop

\* Char, Backspace, Tab or BackTab in Console mode
KeyConsole ==
    /\ pc = "await"
    /\ mode.kind = "Console"
    /\ \E path \in ConsolePaths(fs) :
          /\ Fits(console_key(Self, path))
          /\ Becomes(console_key(Self, path))
    /\ pc' = "draw"
    /\ UNCHANGED Loop

KeyConsoleEnter ==
    /\ pc = "await"
    /\ mode.kind = "Console"
    /\ Becomes(console_enter(Self))
    /\ pc' = "draw"
    /\ UNCHANGED Loop

\* the key of Command::Quit: handle_event returns Ok(true), the loop breaks
\* before its draw() and run() returns
KeyQuit ==
    /\ pc = "await"
    /\ mode.kind = "Normal"
    /\ LET r == handle_quit(add_event(Self))
       IN  /\ Becomes(r.m)
           /\ pc' = IF r.shut_down THEN "done" ELSE "draw"
           /\ result' = IF r.shut_down THEN "Ok" ELSE result
           /\ returned' = IF r.shut_down THEN cleanup(r.m) ELSE returned
    /\ UNCHANGED << dir_rx, prev_rx, opened, closed >>

\* the files that Command::Delete would take
DeleteFiles ==
    { marked_or_selected(Self).files[i] : i \in DOMAIN marked_or_selected(Self).files }

\* the key of Command::Delete; the environment refuses the renames of fail and
\* lets get_destination fail for nodest
KeyDelete ==
    /\ pc = "await"
    /\ mode.kind = "Normal"
    /\ \E fail \in SUBSET DeleteFiles, nodest \in SUBSET DeleteFiles :
          LET e == delete_event(add_event(Self), fail, nodest)
          IN  /\ Fits(e.m)
              /\ Becomes(e.m)
              /\ pc' = IF e.panicked THEN "done" ELSE "draw"
              /\ result' = IF e.panicked THEN "Panic" ELSE result
    /\ UNCHANGED << dir_rx, prev_rx, opened, closed, returned >>

\* the key of Command::Paste { overwrite }
KeyPaste ==
    /\ pc = "await"
    /\ mode.kind = "Normal"
    /\ \E overwrite \in BOOLEAN :
          /\ Fits(paste(add_event(Self), overwrite))
          /\ Becomes(paste(add_event(Self), overwrite))
    /\ pc' = "draw"
    /\ UNCHANGED Loop

\* Char(c) in CreateItem or Rename mode
KeyModeChar ==
    /\ pc = "await"
    /\ mode.kind \in { "CreateItem", "Rename" }
    /\ mode.input = << >>
    /\ \E c \in EditNames : Becomes(mode_char(Self, c))
    /\ pc' = "draw"
    /\ UNCHANGED Loop

KeyModeBackspace ==
    /\ pc = "await"
    /\ mode.kind \in { "CreateItem", "Rename" }
    /\ Becomes(mode_backspace(Self))
    /\ pc' = "draw"
    /\ UNCHANGED Loop

KeyModeOther ==
    /\ pc = "await"
    /\ mode.kind \in { "Console", "CreateItem", "Rename" }
    /\ \E key \in { "Tab", "Other" } :
          /\ mode.kind = "Console" => key = "Other"
          /\ Becomes(mode_other(Self, key))
    /\ pc' = "draw"
    /\ UNCHANGED Loop

KeyCreateEnter ==
    /\ pc = "await"
    /\ mode.kind = "CreateItem"
    /\ Becomes(create_item_enter(Self))
    /\ pc' = "draw"
    /\ UNCHANGED Loop

KeyRenameEnter ==
    /\ pc = "await"
    /\ mode.kind = "Rename"
    /\ Fits(rename_enter(Self))
    /\ Becomes(rename_enter(Self))
    /\ pc' = "draw"
    /\ UNCHANGED Loop

\* a key of Search mode other than Enter
KeySearch ==
    /\ pc = "await"
    /\ mode.kind = "Search"
    /\ \E key \in EditNames \cup { "Backspace", "Other" } :
          /\ key \in EditNames => mode.input = << >>
          /\ Becomes(search_key(Self, key))
    /\ pc' = "draw"
    /\ UNCHANGED Loop

KeySearchEnter ==
    /\ pc = "await"
    /\ mode.kind = "Search"
    /\ Fits(search_enter(Self))
    /\ Becomes(search_enter(Self))
    /\ pc' = "draw"
    /\ UNCHANGED Loop

Resize ==
    /\ pc = "await"
    /\ \E sx \in Sizes, sy \in Sizes : Becomes(handle_resize(Self, sx, sy))
    /\ pc' = "draw"
    /\ UNCHANGED Loop

\* logger.update() resolves
LogUpdate ==
    /\ pc = "await"
    /\ log_signal
    /\ Becomes(redraw_log([ Self EXCEPT !.log_signal = FALSE ]))
    /\ pc' = "draw"
    /\ UNCHANGED Loop

RecvDir ==
    /\ pc = "await"
    /\ dir_rx # << >>
    /\ Fits(dir_arm(Self, Head(dir_rx)))
    /\ Becomes(dir_arm(Self, Head(dir_rx)))
    /\ dir_rx' = Tail(dir_rx)
    /\ pc' = "draw"
    /\ UNCHANGED << prev_rx, opened, result, closed, returned >>

RecvPrev ==
    /\ pc = "await"
    /\ prev_rx # << >>
    /\ Fits(prev_arm(Self, Head(prev_rx)))
    /\ Becomes(prev_arm(Self, Head(prev_rx)))
    /\ prev_rx' = Tail(prev_rx)
    /\ pc' = "draw"
    /\ UNCHANGED << dir_rx, opened, result, closed, returned >>

\* dir_rx.recv() returns None: the sender is gone and nothing is buffered
\* (lines 741-745); the loop breaks and run() returns
RecvDirNone ==
    /\ pc = "await"
    /\ "dir" \in closed
    /\ dir_rx = << >>
    /\ Becomes(Self)
    /\ pc' = "done"
    /\ result' = "Ok"
    /\ returned' = cleanup(Self)
    /\ UNCHANGED << dir_rx, prev_rx, opened, closed >>

\* prev_rx.recv() returns None (lines 768-772)
RecvPrevNone ==
    /\ pc = "await"
    /\ "prev" \in closed
    /\ prev_rx = << >>
    /\ Becomes(Self)
    /\ pc' = "done"
    /\ result' = "Ok"
    /\ returned' = cleanup(Self)
    /\ UNCHANGED << dir_rx, prev_rx, opened, closed >>

\* the event stream returns None (line 790)
EventNone ==
    /\ pc = "await"
    /\ "events" \in closed
    /\ Becomes(Self)
    /\ pc' = "done"
    /\ result' = "Ok"
    /\ returned' = cleanup(Self)
    /\ UNCHANGED << dir_rx, prev_rx, opened, closed >>

\* self.draw() at the end of an iteration (line 795)
Draw ==
    /\ pc = "draw"
    /\ Becomes(draw(Self))
    /\ pc' = "await"
    /\ UNCHANGED Loop

----------------------------------------------------------------------------
(* The workers, the debounce timer and the watchers *)

Running == pc # "done"

DirWorker ==
    /\ Running
    /\ "dir" \notin closed
    /\ dir_tx # << >>
    /\ Len(dir_rx) < MaxChan
    /\ LET st == Head(dir_tx).state
           panel == LoadDir(fs, st.path)
       IN  /\ dir_rx' = Append(dir_rx, [ panel |-> panel, state |-> st,
                                         at |-> Head(dir_tx).at ])
           /\ cache' = CachePut(cache, panel)
    /\ dir_tx' = Tail(dir_tx)
    /\ UNCHANGED << left, center, right, prev_tx, delayed, prev_rx, mode, clipboard,
                    show_hidden, show_log, redraw, layout, previous, pre_console_path, parser,
                    fs, temp, logs, log_signal, opened, pc, result, tasks, closed,
                    returned >>

PrevWorker ==
    /\ Running
    /\ "prev" \notin closed
    /\ prev_tx # << >>
    /\ Len(prev_rx) < MaxChan
    /\ prev_rx' = Append(prev_rx, [ panel |-> LoadPreview(fs, Head(prev_tx).path),
                                    state |-> Head(prev_tx) ])
    /\ prev_tx' = Tail(prev_tx)
    /\ UNCHANGED << left, center, right, cache, dir_tx, delayed, dir_rx, mode, clipboard,
                    show_hidden, show_log, redraw, layout, previous, pre_console_path, parser,
                    fs, temp, logs, log_signal, opened, pc, result, tasks, closed,
                    returned >>

\* the quiet period of the delayed preview request is over
DebounceFire ==
    /\ Running
    /\ delayed # NoState
    /\ Len(prev_tx) < MaxChan
    /\ prev_tx' = Append(prev_tx, delayed)
    /\ delayed' = NoState
    /\ UNCHANGED << left, center, right, cache, dir_tx, dir_rx, prev_rx, mode, clipboard,
                    show_hidden, show_log, redraw, layout, previous, pre_console_path, parser,
                    fs, temp, logs, log_signal, opened, pc, result, tasks, closed,
                    returned >>

\* the requests of the watchers of the left and the center slot when the file
\* system goes from f0 to f1: a watcher whose directory has got another
\* listing asks for it again, with the state its slot has
watcher_requests(m, f0, f1) ==
    LET changed(s) == /\ m[s].state.path # None
                      /\ Listing(f0, m[s].state.path) # Listing(f1, m[s].state.path)
        req(s) == IF changed(s) THEN << [ state |-> m[s].state, at |-> "await" ] >> ELSE << >>
    IN  req("left") \o req("center")

\* a closure given to spawn_blocking runs on its own thread; the watchers see
\* what it has changed
PasteTask ==
    /\ tasks # << >>
    /\ LET r == paste_task(fs, Head(tasks))
       IN  /\ fs' = r.fs
           /\ logs' = IF r.failed THEN logs \cup { "Paste failed" } ELSE logs
           /\ log_signal' = (log_signal \/ Head(tasks).clipboard.some)
           /\ dir_tx' = dir_tx \o watcher_requests(Self, fs, r.fs)
    /\ tasks' = Tail(tasks)
    /\ UNCHANGED << left, center, right, cache, prev_tx, delayed, dir_rx, prev_rx,
                    mode, clipboard, show_hidden, show_log, redraw, layout, previous,
                    pre_console_path, parser, temp, opened, pc, result, closed, returned >>

\* the program that opener.open runs touches a watched directory (a swap
\* file, say): the watcher of the left or the center slot asks for the
\* directory again, with the state the slot has (lines 583-590)
Watcher(s) ==
    /\ pc \in { "open", "bulk" }
    /\ Self[s].state.path # None
    /\ Len(dir_tx) < MaxChan
    /\ dir_tx' = Append(dir_tx, [ state |-> Self[s].state, at |-> pc ])
    /\ UNCHANGED << left, center, right, cache, prev_tx, delayed, dir_rx, prev_rx, mode,
                    clipboard, show_hidden, show_log, redraw, layout, previous,
                    pre_console_path, parser, fs, temp, logs, log_signal, opened, pc, result, tasks, closed,
                    returned >>

\* the other end of a channel or of the event stream goes away: the directory
\* worker or the preview worker drops its sender, the terminal ends the stream
Close(c) ==
    /\ Running
    /\ c \notin closed
    /\ closed' = closed \cup { c }
    /\ UNCHANGED << left, center, right, cache, dir_tx, prev_tx, delayed, dir_rx, prev_rx,
                    mode, clipboard, show_hidden, show_log, redraw, layout, previous,
                    pre_console_path, parser, fs, temp, logs, log_signal, opened, pc, result,
                    tasks, returned >>

----------------------------------------------------------------------------
(* Specifications *)

\* navigation and the workers
Next ==
    \/ \E d \in Moves : KeyMove(d)
    \/ RecvDir
    \/ RecvPrev
    \/ Draw
    \/ DirWorker
    \/ PrevWorker
    \/ DebounceFire

Spec == Init /\ [][Next]_vars

\* the manager once the three requests of new() have been served and their
\* completions received: left, center, then the preview of the selection
Loaded ==
    LET m0 == draw(redraw_everything(new))
        l  == [ panel |-> LoadDir(InitFs, Root), state |-> m0.left.state, at |-> "await" ]
        m1 == draw(dir_arm([ m0 EXCEPT !.cache = CachePut(@, l.panel),
                                       !.dir_tx = Tail(@) ], l))
        c  == [ panel |-> LoadDir(InitFs, StartDir), state |-> m1.center.state,
                at |-> "await" ]
        m2 == draw(dir_arm([ m1 EXCEPT !.cache = CachePut(@, c.panel),
                                       !.dir_tx = Tail(@) ], c))
        p  == [ panel |-> LoadPreview(InitFs, m2.right.state.path),
                state |-> m2.right.state ]
    IN  draw(prev_arm([ m2 EXCEPT !.prev_tx = << >>, !.delayed = NoState ], p))

InitLoaded ==
    /\ Is(Loaded)
    /\ dir_rx = << >>
    /\ prev_rx = << >>
    /\ opened = NoCall
    /\ pc = "await"
    /\ result = "running"
    /\ closed = { }
    /\ returned = NotReturned

\* the opener: Move Right on a file and bulk-rename, with the watchers
NextOpen ==
    \/ \E d \in { "Up", "Down" } : KeyMove(d)
    \/ KeyCommand("Mark")
    \/ KeyMoveRightOpen
    \/ OpenReturns
    \/ KeyRename
    \/ BulkReturns
    \/ Watcher("center")
    \/ DirWorker
    \/ RecvDir
    \/ Draw

SpecOpen == InitLoaded /\ [][NextOpen]_vars

\* the modes and the redraw flags
NextDraw ==
    \/ \E cmd \in Commands : KeyCommand(cmd)
    \/ \E d \in { "Up", "Down" } : KeyMove(d)
    \/ KeyRename
    \/ KeyEsc
    \/ Resize
    \/ LogUpdate
    \/ Draw

SpecDraw == InitLoaded /\ [][NextDraw]_vars

\* marked_or_selected over the marks a session can leave in the left and the
\* center panel.  Marks reach the left panel through the cache (Left, Mark,
\* Right, JumpPrevious twice); the right panel is the preview of the selection
\* and carries none.
MarkedCenter(cm, sel) == [ Loaded.center.panel EXCEPT !.sel = sel, !.marked = cm ]

InitMarks ==
    /\ \E lm \in SUBSET { << "d" >> } :
          left = [ Loaded.left EXCEPT !.panel.marked = lm ]
    /\ \E cm \in SUBSET Children(InitFs, StartDir), sel \in 1..Cardinality(Children(InitFs, StartDir)) :
          /\ center = [ Loaded.center EXCEPT !.panel = MarkedCenter(cm, sel) ]
          /\ right = [ Loaded.right EXCEPT
                         !.panel = LoadPreview(InitFs, selected_path(MarkedCenter(cm, sel))),
                         !.state.path = selected_path(MarkedCenter(cm, sel)) ]
    /\ cache = Loaded.cache
    /\ dir_tx = << >>
    /\ prev_tx = << >>
    /\ delayed = NoState
    /\ mode = Normal
    /\ clipboard = NoClipboard
    /\ show_hidden = FALSE
    /\ show_log = FALSE
    /\ redraw = Loaded.redraw
    /\ layout = Loaded.layout
    /\ previous = StartDir
    /\ pre_console_path = StartDir
    /\ parser = << >>
    /\ fs = InitFs
    /\ temp = NoTemp
    /\ logs = { }
    /\ log_signal = FALSE
    /\ tasks = << >>
    /\ dir_rx = << >>
    /\ prev_rx = << >>
    /\ opened = NoCall
    /\ pc = "await"
    /\ result = "running"
    /\ closed = { }
    /\ returned = NotReturned

NextMarks ==
    \/ KeyCommand("Cut")
    \/ KeyCommand("Copy")
    \/ KeyCommand("Mark")
    \/ \E d \in { "Up", "Down", "Right" } : KeyMove(d)
    \/ DirWorker
    \/ RecvDir
    \/ Draw

SpecMarks == InitMarks /\ [][NextMarks]_vars

\* the console: Cd, its keys, Enter and Esc, with the horizontal moves and
\* marks of Normal mode
NextConsole ==
    \/ \E d \in { "Left", "Right", "Bottom", "JumpPrevious" } : KeyMove(d)
    \/ KeyCommand("Mark")
    \/ KeyCommand("Cd")
    \/ KeyConsole
    \/ KeyConsoleEnter
    \/ KeyEsc
    \/ RecvDir
    \/ RecvPrev
    \/ Draw
    \/ DirWorker
    \/ PrevWorker
    \/ DebounceFire

SpecConsole == Init /\ [][NextConsole]_vars

\* the ends of run(): Quit and the closing of the channels and of the event
\* stream, during navigation.  The select picks among the arms that are ready,
\* so an arm that is ready again and again is taken, and draw() follows every
\* arm.
NextExit ==
    \/ \E d \in { "Down", "Left", "Right" } : KeyMove(d)
    \/ KeyQuit
    \/ \E c \in { "dir", "prev", "events" } : Close(c)
    \/ RecvDirNone
    \/ RecvPrevNone
    \/ EventNone
    \/ RecvDir
    \/ RecvPrev
    \/ Draw
    \/ DirWorker
    \/ PrevWorker
    \/ DebounceFire

SpecExit ==
    /\ Init
    /\ [][NextExit]_vars
    /\ WF_vars(Draw)
    /\ SF_vars(RecvDirNone)
    /\ SF_vars(RecvPrevNone)
    /\ SF_vars(EventNone)

\* Paste after Cut or Copy, with the closures it spawns, over the marks of
\* InitMarks
NextPaste ==
    \/ KeyCommand("Cut")
    \/ KeyCommand("Copy")
    \/ KeyPaste
    \/ PasteTask
    \/ KeyMove("Left")
    \/ DirWorker
    \/ PrevWorker
    \/ RecvDir
    \/ RecvPrev
    \/ Draw

SpecPaste == InitMarks /\ [][NextPaste]_vars

\* Delete over the marks of InitMarks
NextDelete ==
    \/ KeyDelete
    \/ KeyCommand("Mark")
    \/ DirWorker
    \/ PrevWorker
    \/ RecvDir
    \/ RecvPrev
    \/ Draw

SpecDelete == InitMarks /\ [][NextDelete]_vars

\* the other commands that change the file system: Mkdir and Touch with their
\* input, Rename of one file and of several
NextMutate ==
    \/ \E cmd \in { "Mkdir", "Touch", "Mark" } : KeyCommand(cmd)
    \/ KeyModeChar
    \/ KeyModeBackspace
    \/ KeyCreateEnter
    \/ KeyRename
    \/ BulkReturns
    \/ KeyRenameEnter
    \/ DirWorker
    \/ PrevWorker
    \/ RecvDir
    \/ RecvPrev
    \/ Draw

SpecMutate == InitLoaded /\ [][NextMutate]_vars

\* Rename from the start of run(): before the directory loads arrive the
\* center has no selection; afterwards Mark moves the selection off the
\* marked item
NextRename ==
    \/ KeyCommand("Mark")
    \/ KeyMove("Down")
    \/ KeyRename
    \/ BulkReturns
    \/ KeyModeBackspace
    \/ KeyModeChar
    \/ KeyRenameEnter
    \/ DirWorker
    \/ PrevWorker
    \/ DebounceFire
    \/ RecvDir
    \/ RecvPrev
    \/ Draw

SpecRename == Init /\ [][NextRename]_vars

\* ToggleHidden during navigation
NextHidden ==
    \/ KeyCommand("ToggleHidden")
    \/ \E d \in { "Down", "Left", "Right" } : KeyMove(d)
    \/ DirWorker
    \/ PrevWorker
    \/ DebounceFire
    \/ RecvDir
    \/ RecvPrev
    \/ Draw

SpecHidden == Init /\ [][NextHidden]_vars

\* Cut, a move to the parent directory and Paste right after the start, with
\* the paste task, the workers and the watchers
NextRefresh ==
    \/ KeyCommand("Cut")
    \/ KeyMove("Left")
    \/ KeyPaste
    \/ PasteTask
    \/ DirWorker
    \/ PrevWorker
    \/ RecvDir
    \/ RecvPrev
    \/ Draw

SpecRefresh == Init /\ [][NextRefresh]_vars

\* the five modes: the commands that enter a mode, the keys of each mode, and
\* Enter and Esc that leave it
NextModes ==
    \/ \E cmd \in { "Cd", "Search", "Mkdir", "Touch" } : KeyCommand(cmd)
    \/ KeyRename
    \/ KeyEsc
    \/ KeyConsoleEnter
    \/ KeyModeChar
    \/ KeyModeBackspace
    \/ KeyCreateEnter
    \/ KeyRenameEnter
    \/ KeySearch
    \/ KeySearchEnter
    \/ DirWorker
    \/ RecvDir
    \/ Draw

SpecModes == InitLoaded /\ [][NextModes]_vars

\* Esc in every mode: bindings in progress, marks, searches and console
\* jumps, and no key but Esc that leaves a mode with the left panel redrawn
NextEsc ==
    \/ KeyPrefix
    \/ \E cmd \in { "Cd", "Search", "Mkdir", "Touch", "Mark" } : KeyCommand(cmd)
    \/ KeyRename
    \/ KeyEsc
    \/ KeyConsole
    \/ KeyModeChar
    \/ KeySearch
    \/ KeySearchEnter
    \/ DirWorker
    \/ RecvDir
    \/ Draw

SpecEsc == InitMarks /\ [][NextEsc]_vars

\* every key of every mode, with a clipboard to lose and a loop to end
NextKeys ==
    \/ \E cmd \in { "Cd", "Search", "Mkdir", "Copy" } : KeyCommand(cmd)
    \/ KeyRename
    \/ KeyQuit
    \/ KeyEsc
    \/ KeyConsole
    \/ KeyConsoleEnter
    \/ KeyModeChar
    \/ KeyModeBackspace
    \/ KeyModeOther
    \/ KeyCreateEnter
    \/ KeyRenameEnter
    \/ KeySearch
    \/ KeySearchEnter
    \/ DirWorker
    \/ RecvDir
    \/ Draw

SpecKeys == InitLoaded /\ [][NextKeys]_vars

----------------------------------------------------------------------------
(* Properties *)

\* C1: the loop applies a received completion to a slot only if the state it
\* echoes equals the state of that slot at receipt and the slot is not frozen;
\* a completion that matches no slot leaves the three slots as they are.  A
\* directory completion never touches the right panel, a preview completion
\* never the left or the center slot.
C1_OnlyMatchingApplied ==
    [][ /\ (pc = "await" /\ pc' = "draw" /\ dir_rx # << >> /\ dir_rx' = Tail(dir_rx)) =>
              LET st == Head(dir_rx).state
                  c  == st = center.state /\ ~center.frozen
                  l  == st = left.state /\ ~left.frozen
              IN  /\ center' # center => c
                  /\ left' # left => l
                  /\ right'.panel = right.panel
                  /\ (~c /\ ~l) => << left, center, right >>' = << left, center, right >>
        /\ (pc = "await" /\ pc' = "draw" /\ prev_rx # << >> /\ prev_rx' = Tail(prev_rx)) =>
              LET st == Head(prev_rx).state
              IN  /\ right' # right => (st = right.state /\ ~right.frozen)
                  /\ << left, center >>' = << left, center >> ]_vars

\* C1 witness: the loop has received a directory completion that matched
\* neither the center nor the left slot
C1_StaleDropped == pc = "draw" /\ "unknown panel update" \in logs

\* C2: every selection move advances the generation of the right slot when
\* it is made, to a request for the new selection; a preview completion of an
\* older generation is never installed, and a preview that is installed is the
\* one for the selection the center has.
C2_LastRequestWins ==
    [][ /\ (pc = "await" /\ pc' = "draw" /\ prev_rx # << >> /\ prev_rx' = Tail(prev_rx)) =>
              LET st == Head(prev_rx).state
              IN  /\ st.gen < right.state.gen => right' = right
                  /\ right'.panel # right.panel =>
                        /\ st.gen = right.state.gen
                        /\ st.path = selected_path(center.panel)
        /\ (pc = "await" /\ pc' = "draw" /\ center'.panel.path = center.panel.path
              /\ center'.panel.elems = center.panel.elems
              /\ center'.panel.sel # center.panel.sel) =>
              /\ right'.state.gen = right.state.gen + 1
              /\ right'.state.path = selected_path(center'.panel) ]_vars

\* C2 witness: the completion of an earlier preview request, for another
\* path, is about to be received after a later selection move
C2_StalePreviewPending ==
    /\ pc = "await"
    /\ prev_rx # << >>
    /\ Head(prev_rx).state.gen < right.state.gen
    /\ Head(prev_rx).state.path # right.state.path
    /\ Head(prev_rx).state.path[1] = "d"
    /\ right.state.path = selected_path(center.panel)

C4_FreezeBrackets ==
    /\ pc \in { "open", "bulk" } => center.frozen
    /\ pc = "await" => ~center.frozen

\* C4 witness: both callers of the opener have returned and the loop awaits
\* the next event
C4_BothCallersReturned ==
    /\ pc = "await"
    /\ "Opening failed" \in logs
    /\ "Bulkrename collision" \in logs

\* C5: whenever bulkrename returns, the temporary file is gone, the center is
\* not frozen and redraw_everything has flagged its regions.
C5_BulkrenameAlwaysCleansUp ==
    [][ (pc = "bulk" /\ pc' # "bulk") =>
            /\ ~temp'.exists
            /\ ~center'.frozen
            /\ \A f \in Flags \ { "log" } : redraw'[f] ]_vars

\* C6: when the opener fails, in Move Right or in bulkrename, the failure is
\* logged, the center unfrozen, a full redraw flagged, and the loop goes on in
\* Normal mode.
C6_OpenerFailureContinues ==
    [][ (pc \in { "open", "bulk" }
           /\ \E k \in { "Opening failed", "Opening bulkrename file failed" } :
                 k \in logs' /\ k \notin logs) =>
            /\ ~center'.frozen
            /\ \A f \in Flags \ { "log" } : redraw'[f]
            /\ pc' = "draw"
            /\ result' = "running"
            /\ mode'.kind = "Normal" ]_vars

\* C7: whatever the editor leaves in the file, if it was read and its number
\* of lines differs from the number of old paths, or a new path exists
\* already, bulkrename returns with the file system as it was.
C7_NoRenameOnMismatch ==
    pc = "bulk" =>
        \A o \in Outcomes(temp.text) :
            LET names    == lines(trim_matches(o.contents))
                old      == opened.old_paths
                mismatch == Len(names) # Len(old)
                collides == /\ ~mismatch
                            /\ \E i \in 1..Len(old) :
                                  exists(fs, with_file_name(old[i], names[i]))
            IN  (o.ok /\ o.kept /\ o.io # "read" /\ (mismatch \/ collides)) =>
                    bulkrename_opened([ Self EXCEPT !.temp.exists = o.kept ],
                                      old, o.ok, o.contents, o.io).m.fs = fs

\* C7 witness: bulkrename has returned once on a line-count mismatch and once
\* on a collision, and nothing was renamed
C7_BothAborts ==
    /\ pc = "draw"
    /\ "Bulkrename line count" \in logs
    /\ "Bulkrename collision" \in logs
    /\ fs = InitFs

\* C8: a draw() entered with a flag set clears every flag that was set, in
\* every mode and for both values of show_log.
C8_DrawClearsFlags ==
    [][ (pc = "draw" /\ pc' = "await" /\ any(redraw)) =>
            \A f \in Flags : redraw[f] => ~redraw'[f] ]_vars

\* C9: a Resize replaces the layout by the one of its size and sets all seven
\* redraw flags; mode, panels, clipboard, show_hidden and show_log stay.
C9_ResizeRedrawsAll ==
    [][ (pc = "await" /\ pc' = "draw" /\ layout' # layout) =>
            /\ \E w \in Sizes, h \in Sizes : layout' = from_size(w, h)
            /\ \A f \in Flags : redraw'[f]
            /\ << mode, left, center, right, clipboard, show_hidden, show_log >>'
                 = << mode, left, center, right, clipboard, show_hidden, show_log >> ]_vars

\* C10: the paths that Cut and Copy take from marked_or_selected are exactly
\* the marked paths of the left panel, the center panel and a directory
\* preview, each once; with nothing marked, the selection of the center, which
\* is then marked; and none if the center has no selection.
C10_MarkedOrSelected ==
    [][ (pc = "await" /\ pc' = "draw" /\ clipboard' # clipboard) =>
            LET files == clipboard'.files
                marks == left.panel.marked \cup center.panel.marked
                           \cup (IF right.panel.kind = "Dir"
                                 THEN right.panel.panel.marked ELSE { })
            IN  IF marks # { }
                THEN /\ { files[i] : i \in 1..Len(files) } = marks
                     /\ Len(files) = Cardinality(marks)
                     /\ center'.panel = center.panel
                ELSE IF center.panel.sel # 0
                THEN /\ files = << center.panel.elems[center.panel.sel] >>
                     /\ center'.panel.marked = { center.panel.elems[center.panel.sel] }
                ELSE /\ files = << >>
                     /\ center'.panel = center.panel ]_vars

\* C10 witness: Cut or Copy has taken a marked path of the left panel
\* together with marked paths of the center panel
C10_LeftAndCenterTaken ==
    /\ pc = "draw"
    /\ clipboard.some
    /\ Len(clipboard.files) >= 2
    /\ \E i \in 1..Len(clipboard.files) : clipboard.files[i] \in left.panel.marked
    /\ \E i \in 1..Len(clipboard.files) : clipboard.files[i] \in center.panel.marked

\* the managers a horizontal move can leave: move_left, and move_right on a
\* directory, on no selection, or on a file with either outcome of the opener
AfterHorizontal ==
    { move_left(Self) }
    \cup (IF selected_path(center.panel) = None \/ is_dir(fs, selected_path(center.panel))
          THEN { move_cursor(Self, "Right") }
          ELSE { move_right_opened(move_right_open(Self), ok) : ok \in BOOLEAN })

NoSideMarks(m) ==
    /\ m.left.panel.marked = { }
    /\ m.right.panel.kind = "Dir" => m.right.panel.panel.marked = { }

\* C11: after any Move Left or Move Right (on a directory, on a non-directory,
\* and when the move returns early because the left or the center panel has no
\* selection) no element of the left panel and no element of a directory
\* preview in the right panel is marked.
C11_HorizontalMoveUnmarks ==
    pc = "await" /\ mode.kind = "Normal" => \A m \in AfterHorizontal : NoSideMarks(m)

\* the manager after Move Right into the selected directory and Move Left
RightThenLeft == move_left(move_right_dir(Self))

\* the left panel shows the parent with the center's path selected, the
\* center has a directory selected and the right panel shows its preview
DirSelected ==
    /\ pc = "await"
    /\ mode.kind = "Normal"
    /\ left.panel.path = parent(center.panel.path)
    /\ selected_path(left.panel) = center.panel.path
    /\ selected_path(center.panel) # None
    /\ is_dir(fs, selected_path(center.panel))
    /\ right.panel.kind = "Dir"
    /\ maybe_path(right.panel) = selected_path(center.panel)

\* C12: Move Right into a selected directory followed immediately by Move Left
\* gives back the center panel it started from (path, selection, and no
\* difference other than marks of the left and the right panel), the left
\* panel on the parent with the center's path selected, and in the right panel
\* a directory preview of the directory that was entered.
C12_RightLeftRoundTrip ==
    DirSelected =>
        /\ RightThenLeft.center.panel = center.panel
        /\ RightThenLeft.left.panel.path = parent(center.panel.path)
        /\ selected_path(RightThenLeft.left.panel) = center.panel.path
        /\ RightThenLeft.right.panel.kind = "Dir"
        /\ maybe_path(RightThenLeft.right.panel) = selected_path(center.panel)

\* the movements that go through move_up, and those that go through move_down
UpMoves == { "Up", "Top", "HalfPageBackward", "PageBackward" }

DownMoves == { "Down", "Bottom", "HalfPageForward", "PageForward" }

\* C13: move_up with the selection on the first element and move_down with
\* the selection on the last one, for every step (one, half a page, a page,
\* Top, Bottom), change nothing: the selection stays, no redraw flag is set,
\* no preview load is requested and the generation of the right slot stays.
C13_BoundaryMovesAreNoOps ==
    /\ center.panel.sel = 1 =>
          \A d \in UpMoves : move_cursor(Self, d) = Self
    /\ center.panel.sel # 0 /\ center.panel.sel = Len(center.panel.elems) =>
          \A d \in DownMoves : move_cursor(Self, d) = Self

\* the loop has handled a key with the selection on the last of several
\* elements and found nothing to redraw and no preview to ask for
C13_StoppedAtBottom ==
    /\ pc = "draw"
    /\ Len(center.panel.elems) >= 2
    /\ center.panel.sel = Len(center.panel.elems)
    /\ ~redraw.center /\ ~redraw.right
    /\ delayed = NoState
    /\ dir_rx = << >> /\ prev_rx = << >> /\ dir_tx = << >> /\ prev_tx = << >>

\* C14: jump(path) with path equal to the center's current path changes
\* nothing: no slot issues a load request or advances its generation, previous
\* stays, and no redraw flag is set.  Jump Previous onto the current path is
\* this call, and a console key that returns the current path adds only the
\* console flag of its own arm.
C14_JumpToCurrentIsNoOp ==
    /\ jump(Self, center.panel.path) = Self
    /\ previous = center.panel.path => move_cursor(Self, "JumpPrevious") = Self
    /\ console_key(Self, center.panel.path) = redraw_console(Self)

\* the loop has handled a key in Normal mode with previous equal to the path
\* of the loaded center, and nothing is flagged or requested
C14_JumpPreviousStayed ==
    /\ pc = "draw"
    /\ mode.kind = "Normal"
    /\ previous = center.panel.path
    /\ center.panel.sel = 1
    /\ ~redraw.left /\ ~redraw.center /\ ~redraw.right
    /\ delayed = NoState
    /\ dir_rx = << >> /\ prev_rx = << >> /\ dir_tx = << >> /\ prev_tx = << >>

\* C15: after Cd and any sequence of console keys (Char, Backspace, Tab,
\* BackTab) the Esc key leaves the mode Normal and the center on the path that
\* was current when Cd was issued (Cd stores it in pre_console_path and no
\* console key writes that field), and the Enter key leaves the mode Normal
\* and the center on the path the console has reached.
C15_ConsoleLeaves ==
    mode.kind = "Console" =>
        /\ handle_esc(Self).mode = Normal
        /\ handle_esc(Self).center.panel.path = pre_console_path
        /\ console_enter(Self).mode = Normal
        /\ console_enter(Self).center.panel.path = center.panel.path

\* what the manager holds, apart from the position and the result of run()
Manager ==
    << left, center, right, cache, dir_tx, prev_tx, delayed, mode, clipboard,
       show_hidden, show_log, redraw, layout, previous, pre_console_path, fs, temp,
       logs, log_signal, tasks, dir_rx, prev_rx >>

\* a channel or the stream is closed and the loop would receive None from it
SeesNone ==
    \/ "dir" \in closed /\ dir_rx = << >>
    \/ "prev" \in closed /\ prev_rx = << >>
    \/ "events" \in closed

\* C16: when the directory-completion channel, the preview-completion channel
\* or the terminal event stream closes, the loop ends: run() writes the
\* restore sequence (clear, cursor home, cursor show) and returns Ok with the
\* center's current path, and applies no further completion or keystroke.
C16_ClosedChannelEndsLoop ==
    /\ [][ pc # "done" /\ pc' = "done" /\ closed # { }
              => /\ pc = "await"
                 /\ result' = "Ok"
                 /\ returned' = [ restored |-> TRUE, path |-> center.panel.path ]
                 /\ UNCHANGED Manager ]_vars
    /\ [][ pc = "done" => UNCHANGED << Manager, returned, result >> ]_vars
    /\ SeesNone ~> (pc = "done" /\ result = "Ok" /\ returned.restored)

\* run() has returned because a channel closed, after the center had moved
C16_ReturnedAfterClose ==
    /\ pc = "done"
    /\ closed # { }
    /\ result = "Ok"
    /\ returned = [ restored |-> TRUE, path |-> center.panel.path ]
    /\ center.panel.path # StartDir

\* C17: Quit ends the loop at once, without waiting for loads or paste tasks
\* in flight, and run() returns the path the center panel has at that moment.
C17_QuitReturnsAtOnce ==
    [][ pc # "done" /\ pc' = "done" /\ closed = { }
          => /\ pc = "await"
             /\ mode.kind = "Normal"
             /\ result' = "Ok"
             /\ returned' = [ restored |-> TRUE, path |-> center.panel.path ]
             /\ UNCHANGED Manager ]_vars

\* run() has returned on Quit with a load request unserved, a completion
\* unreceived and the debounced preview request not yet fired
C17_QuitWithLoadsInFlight ==
    /\ pc = "done"
    /\ closed = { }
    /\ result = "Ok"
    /\ returned.path = center.panel.path
    /\ center.panel.path # StartDir
    /\ dir_tx # << >> \/ dir_rx # << >>
    /\ delayed # NoState

\* the closure that the last Paste of m has spawned
last_task(m) == m.tasks[Len(m.tasks)]

\* C18: after Paste the clipboard is empty, whatever the overwrite flag; a
\* second Paste with no Cut or Copy in between spawns a closure that holds no
\* clipboard, and such a closure moves and copies nothing.
C18_PasteTakesClipboard ==
    /\ pc = "await" /\ mode.kind = "Normal" =>
          \A o1 \in BOOLEAN, o2 \in BOOLEAN :
             /\ paste(Self, o1).clipboard = NoClipboard
             /\ last_task(paste(Self, o1)).clipboard = clipboard
             /\ last_task(paste(paste(Self, o1), o2)).clipboard = NoClipboard
             /\ paste(Self, o1).fs = fs
    /\ \A i \in DOMAIN tasks :
          ~tasks[i].clipboard.some => paste_task(fs, tasks[i]).fs = fs

\* two Pastes after one Cut or Copy: the closure of the first holds the
\* files, the closure of the second holds nothing, the clipboard is empty
C18_PastedTwice ==
    /\ pc = "draw"
    /\ Len(tasks) = 2
    /\ tasks[1].clipboard.some
    /\ tasks[1].clipboard.files # << >>
    /\ ~tasks[2].clipboard.some
    /\ clipboard = NoClipboard

\* the slot s of m has been reloaded from m0: its state is the path it had
\* with the next generation, and a request with that state is queued
Reloaded(m0, m, s) ==
    /\ m[s].state = [ path |-> m0[s].state.path, gen |-> m0[s].state.gen + 1 ]
    /\ IF s = "right"
       THEN \E i \in DOMAIN m.prev_tx : i > Len(m0.prev_tx) /\ m.prev_tx[i] = m[s].state
       ELSE \E i \in DOMAIN m.dir_tx : i > Len(m0.dir_tx) /\ m.dir_tx[i].state = m[s].state

\* C19: after every command that changes the file system (Delete, Paste,
\* Enter in Rename mode, Enter in CreateItem mode for mkdir and for touch,
\* bulk-rename), whether it succeeded or failed, a reload with a fresh
\* generation is issued for the center panel.
C19_MutationReloadsCenter ==
    /\ pc = "await" /\ mode.kind = "Normal" =>
          /\ \A fail \in SUBSET { marked_or_selected(Self).files[i] :
                                    i \in DOMAIN marked_or_selected(Self).files } :
                Reloaded(Self, delete(Self, fail), "center")
          /\ \A overwrite \in BOOLEAN : Reloaded(Self, paste(Self, overwrite), "center")
    /\ pc = "await" /\ mode.kind = "Rename" => Reloaded(Self, rename_enter(Self), "center")
    /\ pc = "await" /\ mode.kind = "CreateItem" =>
          Reloaded(Self, create_item_enter(Self), "center")
    /\ pc = "bulk" =>
          \A o \in Outcomes(temp.text) :
             LET r == bulkrename_opened([ Self EXCEPT !.temp.exists = o.kept ],
                                        opened.old_paths, o.ok, o.contents, o.io)
             IN  ~r.err => Reloaded(Self, r.m, "center")

\* the paths of f that are not in the trash
Listed(f) == { p \in f.dirs \cup f.files : ~IsPrefix(Trash, p) }

\* the paths of f in the trash
Trashed(f) == { p \in f.dirs \cup f.files : IsPrefix(Trash, p) }

C21_DeleteNeverAborts ==
    pc = "await" /\ mode.kind = "Normal" =>
        \A fail \in SUBSET DeleteFiles, nodest \in SUBSET DeleteFiles :
            LET e == delete_event(Self, fail, nodest)
            IN  /\ ~e.panicked
                /\ fail \cup nodest # { } => "Delete failed" \in e.m.logs

\* C21, the part on std::fs::rename: a rename that fails is logged, Delete
\* goes on with the next file and with the three reloads
C21_RenameFailureLogged ==
    pc = "await" /\ mode.kind = "Normal" =>
        \A fail \in SUBSET DeleteFiles :
            LET e == delete_event(Self, fail, { })
            IN  /\ ~e.panicked
                /\ fail # { } => "Delete failed" \in e.m.logs
                /\ Reloaded(Self, e.m, "center")

\* C22: the Rename command enters Rename mode when marked_or_selected yields
\* exactly one path, and runs the bulk-rename flow (the temporary file is
\* written, the opener is called) only when it yields more than one; with no
\* path (no selection in the center, nothing marked) neither happens.
C22_RenameByCount ==
    [][ KeyRename =>
          LET n == Len(marked_or_selected(Self).files)
          IN  /\ n = 1 => mode'.kind = "Rename" /\ pc' = "draw"
              /\ mode'.kind = "Rename" => n = 1
              /\ (pc' = "bulk" \/ temp' # temp \/ opened' # opened) => n > 1
              /\ n = 0 => /\ mode' = mode
                          /\ pc' = "draw"
                          /\ result' = result ]_vars

\* C23: in every state in which the Rename command enters Rename mode (one
\* marked item that differs from the center's selection included) the input
\* is prefilled with the file name of the center's selection, and Enter
\* renames exactly that path to its parent joined with the input; no other
\* path is renamed or overwritten.
C23_RenameTakesSelection ==
    pc = "await" /\ mode.kind = "Normal" /\ Len(marked_or_selected(Self).files) = 1 =>
        LET r    == marked_or_selected(Self)
            from == selected_path(center.panel)
            m1   == rename_single(r.m, r.files)
            m2   == rename_enter(m1)
        IN  /\ from # None
            /\ m1.mode.input = << file_name(from) >>
            /\ m2.fs \in { fs, Renamed(fs, from, with_file_name(from, input_name(m1.mode.input))) }
            /\ Cardinality(Listed(m2.fs)) = Cardinality(Listed(fs))

\* C24: after the ToggleHidden command show_hidden is flipped, the hidden
\* filter of the left panel, of the center panel and of a directory preview
\* in the right panel equals show_hidden, and the selected entry of the left
\* panel is the entry for the center panel's path.
C24_ToggleHidden ==
    pc = "await" /\ mode.kind = "Normal" =>
        LET m == toggle_hidden(Self)
        IN  /\ m.show_hidden = ~show_hidden
            /\ m.left.panel.hidden = m.show_hidden
            /\ m.center.panel.hidden = m.show_hidden
            /\ m.right.panel.kind = "Dir" => m.right.panel.panel.hidden = m.show_hidden
            /\ selected_path(m.left.panel) = m.center.panel.path

\* C25: after Move Right with a directory d selected in the center, the
\* center panel's path is d and the left panel is the former center panel,
\* for every interleaving of keystrokes and preview completions, also when
\* the preview completion for d has not been installed in the right slot yet.
C25_RightEntersSelection ==
    /\ pc = "await"
    /\ mode.kind = "Normal"
    /\ selected_path(center.panel) # None
    /\ is_dir(fs, selected_path(center.panel))
    => LET m == move_cursor(Self, "Right")
       IN  /\ m.center.panel.path = selected_path(center.panel)
           /\ m.left.panel = unmark(center.panel)

\* C26: each received directory completion is applied to at most one of the
\* center and the left slot, the center being asked first.  Applied to the
\* center, a delayed preview load for the center's selected path is issued and
\* the generation of the right slot advances; applied to the left, the
\* center's path is selected again in the left panel; accepted by neither, no
\* panel changes.  A directory completion never changes the panel of the
\* right slot, a preview completion never the left or the center slot.
C26_CompletionDispatch ==
    [][ /\ (pc = "await" /\ pc' = "draw" /\ dir_rx # << >> /\ dir_rx' = Tail(dir_rx)) =>
              LET msg == Head(dir_rx)
                  c   == check_update(center, msg.state)
                  l   == check_update(left, msg.state)
              IN  /\ c => /\ center'.panel = msg.panel
                          /\ left' = left
                          /\ right'.state = [ path |-> selected_path(msg.panel),
                                              gen |-> right.state.gen + 1 ]
                          /\ delayed' = right'.state
                  /\ ~c /\ l => /\ center' = center
                                /\ left'.panel = select_path(msg.panel, center.panel.path)
                                /\ right' = right
                                /\ delayed' = delayed
                  /\ ~c /\ ~l => << left, center, right, delayed >>' = << left, center, right, delayed >>
                  /\ right'.panel = right.panel
                  /\ prev_tx' = prev_tx
        /\ (pc = "await" /\ pc' = "draw" /\ prev_rx # << >> /\ prev_rx' = Tail(prev_rx)) =>
              /\ << left, center >>' = << left, center >>
              /\ dir_tx' = dir_tx ]_vars

\* C26 witness: after a completion that neither slot accepted and one that the
\* center accepted, the loop has just applied one to the left slot and
\* selected the center's path in it
C26_LeftAppliedAfterDrop ==
    /\ pc = "draw"
    /\ "unknown panel update" \in logs
    /\ center.panel.elems # << >>
    /\ redraw.left /\ ~redraw.center
    /\ left.panel.elems # << >>
    /\ selected_path(left.panel) = center.panel.path

\* nothing is in flight: every request has been served, every completion
\* received and drawn, and the debounced request has fired
Quiet ==
    /\ pc = "await"
    /\ dir_tx = << >> /\ prev_tx = << >>
    /\ dir_rx = << >> /\ prev_rx = << >>
    /\ delayed = NoState
    /\ tasks = << >>

\* the right slot holds a preview of the path selected in the center: the
\* empty preview for no selection, else a preview with the path of the
\* selection
PreviewOfSelection ==
    IF selected_path(center.panel) = None
    THEN right.panel.kind = "Empty"
    ELSE right.panel.kind # "Empty" /\ maybe_path(right.panel) = selected_path(center.panel)

\* C27: with the debounce fired, every request answered and every completion
\* delivered, and no further input, after any operation that changes the
\* center's selection or path the right slot comes to hold the preview of the
\* path selected in the center and keeps it.  Once nothing is in flight
\* nothing changes any more, so the right slot must hold that preview then.
C27_PreviewFollowsSelection == Quiet /\ mode.kind = "Normal" => PreviewOfSelection

\* no directory load and no paste task is in flight
DirQuiet ==
    /\ pc = "await"
    /\ tasks = << >>
    /\ dir_tx = << >>
    /\ dir_rx = << >>

\* C28: after a Paste command, once the blocking paste task has finished and
\* every outstanding load request has been answered and received, with no
\* further input, the content of the center panel is the content of its
\* directory after the paste, for every interleaving of the paste task with
\* the workers that serve the reloads of Paste.
C28_PasteRefreshesCenter ==
    DirQuiet => center.panel.elems = Listing(fs, center.panel.path)

\* C29: every command that changes the marked flag of an element of the
\* center panel (Mark, also on the last element where the selection cannot
\* advance, and Cut, Copy or Rename with nothing marked, which mark the
\* selection) sets the center redraw flag before the next draw().
C29_MarkChangeRedrawsCenter ==
    [][ (pc = "await" /\ pc' # "await" /\ center'.panel.marked # center.panel.marked)
            => redraw'.center ]_vars

\* the manager with every redraw flag down
Unflagged(m) == [ m EXCEPT !.redraw = [ f \in DOMAIN m.redraw |-> FALSE ] ]

\* what the handle_event steps that can change the mode leave of manager m:
\* the commands and Rename in Normal mode, Enter in the other modes, and Esc
ModeSteps(m) ==
    { handle_esc(m) }
    \cup (IF m.mode.kind = "Normal"
          THEN { normal_command(m, cmd) : cmd \in Commands }
               \cup (LET r == marked_or_selected(m)
                     IN  IF Len(r.files) = 1 THEN { rename_single(r.m, r.files) }
                         ELSE { })
          ELSE { })
    \cup (IF m.mode.kind = "Console" THEN { console_enter(m) } ELSE { })
    \cup (IF m.mode.kind = "CreateItem" THEN { create_item_enter(m) } ELSE { })
    \cup (IF m.mode.kind = "Rename" THEN { rename_enter(m) } ELSE { })
    \cup (IF m.mode.kind = "Search" THEN { search_enter(m) } ELSE { })

\* C30: every handle_event step that changes the mode variant (Normal to
\* Console, Search, CreateItem or Rename, and any of those back to Normal by
\* Enter or Esc) sets the footer flag or the console flag before the next
\* draw(): whatever flags were up before the event, a step that leaves
\* another mode variant leaves the footer flag or the console flag up.
C30_ModeChangeRedraws ==
    pc = "await" =>
        \A n \in ModeSteps(Unflagged(Self)) :
            n.mode.kind # mode.kind => n.redraw.footer \/ n.redraw.console

\* C30 witness: an item has been created from CreateItem mode, and Enter in
\* Search mode has just brought the mode back to Normal with the selection on
\* a match: only that step leaves marks behind without redrawing the left
\* panel
C30_BackFromSearch ==
    /\ pc = "draw"
    /\ mode.kind = "Normal"
    /\ << "d", "x" >> \in fs.dirs \cup fs.files
    /\ center.panel.marked # { }
    /\ selected_path(center.panel) \in center.panel.marked
    /\ redraw.footer /\ redraw.center /\ ~redraw.left

\* the marks of the left, the center and a directory-preview right panel
AllMarks(m) ==
    m.left.panel.marked \cup m.center.panel.marked
        \cup (IF m.right.panel.kind = "Dir" THEN m.right.panel.panel.marked ELSE { })

ModeKey ==
    \/ KeyConsole
    \/ KeyConsoleEnter
    \/ KeyModeChar
    \/ KeyModeBackspace
    \/ KeyModeOther
    \/ KeyCreateEnter
    \/ KeyRenameEnter
    \/ KeySearch
    \/ KeySearchEnter

\* the files below the trash directory
InTrash(f) == { q \in f.dirs \cup f.files : IsPrefix(Trash, q) }

\* C32: while the mode is Console, CreateItem, Search or Rename, no key event
\* other than Esc reaches the keystroke parser: no such key can terminate the
\* event loop, change the clipboard, or trigger Delete, Paste or a horizontal
\* move; handle_event returns true (quit) only from Normal mode. A key of
\* these modes leaves the parser, the clipboard, the paste tasks and the
\* trash as they are and the loop goes on to draw; the center changes its
\* directory only in Console mode and then by a jump, which records the path
\* it left; and run() returns Ok only on a step taken in Normal mode.
C32_ModeKeysBypassParser ==
    [][ /\ ModeKey =>
              /\ parser' = parser
              /\ pc' = "draw" /\ result' = result /\ returned' = returned
              /\ clipboard' = clipboard
              /\ tasks' = tasks
              /\ InTrash(fs') = InTrash(fs)
              /\ opened' = opened
              /\ center'.state.path # center.state.path =>
                    mode.kind = "Console" /\ previous' = center.panel.path
        /\ result' = "Ok" /\ result # "Ok" => mode.kind = "Normal" /\ pc = "await"
      ]_vars

\* C32 witness: with files on the clipboard, CreateItem mode has been entered
\* and a name typed, and Enter has created the item: the loop goes on, and
\* the parser and the clipboard are as they were
C32_CreatedWithClipboard ==
    /\ pc = "draw"
    /\ mode = Normal
    /\ clipboard.some
    /\ << "d", "x" >> \in fs.dirs \cup fs.files
    /\ parser = << >>
    /\ result = "running"
    /\ redraw.left

\* lines 1092 and 1103-1107: the new paths that the edited file gives the old
\* ones
NewPaths(old_paths, contents) ==
    LET new_file_names == lines(trim_matches(contents))
    IN  [ i \in 1..Len(old_paths) |-> with_file_name(old_paths[i], new_file_names[i]) ]

\* C33: when bulk-rename performs its renames and every rename call succeeds,
\* each of the N old files exists afterwards under its own new name and N
\* distinct files result: no rename of the batch overwrites the result of
\* another rename of the same batch, also when the edited file contains the
\* same new name on two lines.
C33_BulkRenameKeepsFiles ==
    pc = "bulk" =>
        \A contents \in Texts \cup { temp.text } :
            LET old_paths == opened.old_paths
                new_paths == NewPaths(old_paths, contents)
                r         == rename_all(fs, old_paths, new_paths, 1, "none")
            IN  (/\ Len(lines(trim_matches(contents))) = Len(old_paths)
                 /\ collisions(fs, new_paths) = { }
                 /\ ~r.err)
                => /\ \A i \in 1..Len(old_paths) : exists(r.fs, new_paths[i])
                   /\ Cardinality({ new_paths[i] : i \in 1..Len(old_paths) })
                        = Len(old_paths)
                   /\ Cardinality(r.fs.dirs \cup r.fs.files)
                        = Cardinality(fs.dirs \cup fs.files)

====
